---------------------------- MODULE Spec2Model ----------------------------
(***************************************************************************)
(* TMDB movie analysis on Spark: the cleaning pipeline                     *)
(* (src/src/cleaning/cleaner.py, udfs.py) and the ranking engine           *)
(* (src/src/analytics/kpi_calculator.py, aggregations.py).                 *)
(*                                                                         *)
(* A DataFrame is [columns, types, rows]: the ordered column names, the    *)
(* column types, and the rows, each row a function from the column names.  *)
(* A nullable value is Null (<<>>) or V(x) (<<x>>).  A pipe-joined string  *)
(* is the sequence of its '|'-free segments; a double is an exact rational *)
(* [num, den] with den > 0.                                                *)
(***************************************************************************)
EXTENDS Integers, Sequences, FiniteSets, TLC

VARIABLES
    raw,        \* the DataFrame handed to the current run of clean_all
    df,         \* clean_all's local df, after the stages run so far
    before,     \* df as it was before the stage that ran last
    dedup,      \* filter_data's df right after dropDuplicates (line 213)
    pc,         \* clean_all's position: which stage ran last, or "fault"
    run,        \* how many times clean_all has been started
    kdf,        \* the DataFrame handed to the analytics calls
    spark,      \* the analytics object's self.spark: Null or V("session")
    call,       \* the analytics call made last: [fn, metric, ascending, top_n, filter]
    df_calc,    \* the call's DataFrame once its derived columns are computed
    result,     \* what the call returned: a DataFrame, a session, or Fault
    activeSession,  \* SparkSession.getActiveSession(): Null or V(session)
    built       \* how many SparkSessions have been built

vars == <<raw, df, before, dedup, pc, run, kdf, spark, call, df_calc, result,
          activeSession, built>>

cleanVars == <<raw, df, before, dedup, pc, run>>
kpiVars == <<kdf, spark, call, df_calc, result, activeSession, built>>

----------------------------------------------------------------------------
(* Bounds of the model *)

MaxRows == 2
MaxRuns == 2
MaxMovies == 3
MaxTopN == 3

----------------------------------------------------------------------------
(* Values *)

Null == <<>>
V(x) == <<x>>
IsNull(v) == Len(v) = 0
NotNull(v) == Len(v) > 0
Val(v) == v[1]

\* Python None for an object reference, and a raised exception
Fault == [fault |-> TRUE]
IsFault(x) == x = Fault

Range(s) == {s[i] : i \in 1..Len(s)}

Min(a, b) == IF a <= b THEN a ELSE b

\* All orderings of the index set 1..n
Perms(n) == {p \in [1..n -> 1..n] : \A i, j \in 1..n : i # j => p[i] # p[j]}

\* The subsequence of s at the indices in keep, in order
RECURSIVE PickFrom(_, _, _)
PickFrom(s, keep, i) ==
    IF i > Len(s) THEN <<>>
    ELSE (IF i \in keep THEN <<s[i]>> ELSE <<>>) \o PickFrom(s, keep, i + 1)

Pick(s, keep) == PickFrom(s, keep, 1)

----------------------------------------------------------------------------
(* Exact rationals for Spark doubles *)

Rat(n, d) == [num |-> n, den |-> d]
RInt(n) == Rat(n, 1)
RSub(a, b) == Rat(a.num * b.den - b.num * a.den, a.den * b.den)
RMul(a, b) == Rat(a.num * b.num, a.den * b.den)
\* a / b for b > 0
RDivPos(a, b) == Rat(a.num * b.den, a.den * b.num)
REq(a, b) == a.num * b.den = b.num * a.den
RLt(a, b) == a.num * b.den < b.num * a.den
RLe(a, b) == a.num * b.den <= b.num * a.den

----------------------------------------------------------------------------
(* DataFrame operations (pyspark.sql.DataFrame as the code uses it) *)

HasCol(d, c) == c \in Range(d.columns)

ColSet(d) == Range(d.columns)

NRows(d) == Len(d.rows)

\* df.withColumn(c, ...): vals[i] is the new value of row i; a new column
\* goes last, an existing one keeps its place
WithColumn(d, c, ty, vals) ==
    [columns |-> IF HasCol(d, c) THEN d.columns ELSE Append(d.columns, c),
     types   |-> [k \in ColSet(d) \cup {c} |-> IF k = c THEN ty ELSE d.types[k]],
     rows    |-> [i \in 1..Len(d.rows) |->
                    [k \in ColSet(d) \cup {c} |->
                        IF k = c THEN vals[i] ELSE d.rows[i][k]]]]

\* df.drop(*cs): absent names are ignored by Spark
DropCols(d, cs) ==
    LET keep == {i \in 1..Len(d.columns) : d.columns[i] \notin cs}
        cols == Pick(d.columns, keep)
    IN  [columns |-> cols,
         types   |-> [k \in Range(cols) |-> d.types[k]],
         rows    |-> [i \in 1..Len(d.rows) |-> [k \in Range(cols) |-> d.rows[i][k]]]]

\* df.select(*cols), every name present
SelectCols(d, cols) ==
    [columns |-> cols,
     types   |-> [k \in Range(cols) |-> d.types[k]],
     rows    |-> [i \in 1..Len(d.rows) |-> [k \in Range(cols) |-> d.rows[i][k]]]]

\* df.filter(...): keep is the set of row indices the condition accepts
FilterRows(d, keep) == [d EXCEPT !.rows = Pick(d.rows, keep)]

\* The rows of d as a bag: row order is no part of a DataFrame's content
RowCount(d, r) == Cardinality({i \in 1..Len(d.rows) : d.rows[i] = r})

SameRows(d, e) ==
    /\ Len(d.rows) = Len(e.rows)
    /\ \A r \in Range(d.rows) \cup Range(e.rows) : RowCount(d, r) = RowCount(e, r)

----------------------------------------------------------------------------
(* cleaning/udfs.py.  A UDF receives the Python object of the cell: None, *)
(* a Row (struct), a list of Rows (array) or a str.                        *)

Million == 1000000
TopCast == 5

\* extract_collection_name: collection_struct.name, None for None
extract_collection_name(c) == IF NotNull(c) THEN Val(c).name ELSE Null

\* [item.name for item in array_data if item.name is not None]
RECURSIVE NamesOf(_)
NamesOf(arr) ==
    IF arr = <<>> THEN <<>>
    ELSE (IF NotNull(Head(arr).name) THEN <<Val(Head(arr).name)>> ELSE <<>>)
         \o NamesOf(Tail(arr))

\* Mutation of JoinOrNone: no name gives the empty string
JoinOrNone_Empty(names) == V(names)

\* separator.join(names) if names else None
JoinOrNone(names) == IF names # <<>> THEN V(names) ELSE Null

\* extract_names_from_array
extract_names_from_array(a) ==
    IF NotNull(a) /\ Len(Val(a)) > 0 THEN JoinOrNone(NamesOf(Val(a))) ELSE Null

\* extract_keywords_from_struct
extract_keywords_from_struct(k) ==
    IF NotNull(k) /\ NotNull(Val(k).keywords)
    THEN JoinOrNone(NamesOf(Val(Val(k).keywords)))
    ELSE Null

\* Mutation of extract_top_cast: the cast list is not cut at top_n
extract_top_cast_Uncut(c) ==
    IF NotNull(c) /\ NotNull(Val(c).cast)
    THEN JoinOrNone(NamesOf(Val(Val(c).cast)))
    ELSE Null

\* extract_top_cast: credits_struct.cast[:top_n]
extract_top_cast(c) ==
    IF NotNull(c) /\ NotNull(Val(c).cast)
    THEN LET cast == Val(Val(c).cast)
         IN  JoinOrNone(NamesOf(SubSeq(cast, 1, Min(TopCast, Len(cast)))))
    ELSE Null

\* get_cast_size
get_cast_size(c) ==
    IF NotNull(c) /\ NotNull(Val(c).cast) THEN V(Len(Val(Val(c).cast))) ELSE V(0)

\* Mutation of extract_director: the last Director of the crew list wins
extract_director_Last(c) ==
    IF NotNull(c) /\ NotNull(Val(c).crew)
    THEN LET crew == Val(Val(c).crew)
             D == {j \in 1..Len(crew) : crew[j].job = V("Director")}
         IN  IF D = {} THEN Null ELSE crew[CHOOSE j \in D : \A k \in D : k <= j].name
    ELSE Null

\* the loop of extract_director: the first crew member whose job is Director
RECURSIVE FirstDirector(_)
FirstDirector(crew) ==
    IF crew = <<>> THEN Null
    ELSE IF Head(crew).job = V("Director") THEN Head(crew).name
    ELSE FirstDirector(Tail(crew))

\* extract_director
extract_director(c) ==
    IF NotNull(c) /\ NotNull(Val(c).crew) THEN FirstDirector(Val(Val(c).crew)) ELSE Null

\* get_crew_size
get_crew_size(c) ==
    IF NotNull(c) /\ NotNull(Val(c).crew) THEN V(Len(Val(Val(c).crew))) ELSE V(0)

\* Python's order on the name tokens the model uses (code point order)
Alphabet == <<"Action", "Adventure", "Comedy", "Drama">>

AlphaRank(t) == CHOOSE i \in 1..Len(Alphabet) : Alphabet[i] = t

\* sorted(values): insertion of t into a sorted sequence
RECURSIVE InsertSorted(_, _)
InsertSorted(t, s) ==
    IF s = <<>> THEN <<t>>
    ELSE IF AlphaRank(t) <= AlphaRank(Head(s)) THEN <<t>> \o s
    ELSE <<Head(s)>> \o InsertSorted(t, Tail(s))

RECURSIVE Sorted(_)
Sorted(s) == IF s = <<>> THEN <<>> ELSE InsertSorted(Head(s), Sorted(Tail(s)))

\* sort_pipe_separated on a cell of a column of type ty: split, sorted, join
sort_pipe_separated(v, ty) ==
    IF NotNull(v) /\ ty = "string" THEN V(Sorted(Val(v))) ELSE Null

\* A UDF that reads .name / .keywords / iterates structs raises AttributeError
\* on a str cell: the column was flattened before and holds a non-empty string
UdfRaises(d, c) ==
    /\ HasCol(d, c)
    /\ d.types[c] = "string"
    /\ \E i \in 1..NRows(d) : NotNull(d.rows[i][c])

----------------------------------------------------------------------------
(* cleaning/cleaner.py: the stages of SparkMovieDataCleaner *)

cols_to_drop == {"adult", "imdb_id", "original_title", "video", "homepage",
                 "backdrop_path", "poster_path", "origin_country"}

\* Mutation of drop_irrelevant_columns: nothing is dropped
drop_irrelevant_columns_Nothing(d) == d

drop_irrelevant_columns(d) == DropCols(d, cols_to_drop \cap ColSet(d))

array_cols == <<"genres", "production_countries", "production_companies",
                "spoken_languages">>

\* the four withColumn(c, extract_names_from_array(c)) of lines 109-123
RECURSIVE FlattenArrays(_, _)
FlattenArrays(d, cs) ==
    IF cs = <<>> THEN d
    ELSE LET c == Head(cs)
             e == IF HasCol(d, c)
                  THEN WithColumn(d, c, "string",
                         [i \in 1..NRows(d) |-> extract_names_from_array(d.rows[i][c])])
                  ELSE d
         IN  FlattenArrays(e, Tail(cs))

FlattenRaises(d) ==
    \/ UdfRaises(d, "belongs_to_collection")
    \/ \E i \in 1..Len(array_cols) : UdfRaises(d, array_cols[i])
    \/ UdfRaises(d, "keywords")

flatten_nested_columns(d) ==
    LET d1 == IF HasCol(d, "belongs_to_collection")
              THEN WithColumn(d, "collection_name", "string",
                     [i \in 1..NRows(d) |->
                        extract_collection_name(d.rows[i]["belongs_to_collection"])])
              ELSE d
        d2 == FlattenArrays(d1, array_cols)
    IN  IF HasCol(d2, "keywords")
        THEN WithColumn(d2, "keywords", "string",
               [i \in 1..NRows(d2) |-> extract_keywords_from_struct(d2.rows[i]["keywords"])])
        ELSE d2

numeric_cols == <<"budget", "id", "popularity", "revenue", "vote_count",
                  "vote_average", "runtime">>

numeric_type(c) == IF c \in {"popularity", "vote_average"} THEN "double" ELSE "long"

\* F.col(c).cast(dtype) of a numeric column: the number is kept
RECURSIVE CastNumeric(_, _)
CastNumeric(d, cs) ==
    IF cs = <<>> THEN d
    ELSE LET c == Head(cs)
             e == IF HasCol(d, c)
                  THEN WithColumn(d, c, numeric_type(c),
                         [i \in 1..NRows(d) |-> d.rows[i][c]])
                  ELSE d
         IN  CastNumeric(e, Tail(cs))

\* F.to_date: a yyyy-MM-dd string becomes a date, a date stays, anything
\* else becomes null.  A date string is modelled as [y, m, d, ok].
to_date(v, ty) ==
    IF IsNull(v) THEN Null
    ELSE IF ty = "date" THEN v
    ELSE IF Val(v).ok THEN V([year |-> Val(v).y, month |-> Val(v).m, day |-> Val(v).d])
    ELSE Null

\* Mutation of ZeroToNull: a zero is kept
ZeroToNull_Keep(v) == v

\* F.when(F.col(c) == 0, None).otherwise(F.col(c))
ZeroToNull(v) == IF NotNull(v) /\ Val(v) = 0 THEN Null ELSE v

RECURSIVE ZerosToNull(_, _)
ZerosToNull(d, cs) ==
    IF cs = <<>> THEN d
    ELSE LET c == Head(cs)
             e == IF HasCol(d, c)
                  THEN WithColumn(d, c, d.types[c],
                         [i \in 1..NRows(d) |-> ZeroToNull(d.rows[i][c])])
                  ELSE d
         IN  ZerosToNull(e, Tail(cs))

\* F.col(c) / 1_000_000
ToMusd(v) == IF IsNull(v) THEN Null ELSE V(Rat(Val(v), Million))

placeholders == {"No Data", "No Overview", "n/a", "nan"}

PlaceholderToNull(v) == IF NotNull(v) /\ Val(v) \in placeholders THEN Null ELSE v

RECURSIVE ReplacePlaceholders(_, _)
ReplacePlaceholders(d, cs) ==
    IF cs = <<>> THEN d
    ELSE LET c == Head(cs)
             e == IF HasCol(d, c)
                  THEN WithColumn(d, c, d.types[c],
                         [i \in 1..NRows(d) |-> PlaceholderToNull(d.rows[i][c])])
                  ELSE d
         IN  ReplacePlaceholders(e, Tail(cs))

clean_datatypes(d) ==
    LET d1 == CastNumeric(d, numeric_cols)
        d2 == IF HasCol(d1, "release_date")
              THEN WithColumn(d1, "release_date", "date",
                     [i \in 1..NRows(d1) |->
                        to_date(d1.rows[i]["release_date"], d1.types["release_date"])])
              ELSE d1
        d3 == ZerosToNull(d2, <<"budget", "revenue", "runtime">>)
        d4 == IF HasCol(d3, "budget")
              THEN WithColumn(d3, "budget_musd", "double",
                     [i \in 1..NRows(d3) |-> ToMusd(d3.rows[i]["budget"])])
              ELSE d3
        d5 == IF HasCol(d4, "revenue")
              THEN WithColumn(d4, "revenue_musd", "double",
                     [i \in 1..NRows(d4) |-> ToMusd(d4.rows[i]["revenue"])])
              ELSE d4
    IN  ReplacePlaceholders(d5, <<"overview", "tagline">>)

\* Mutation of DedupChoices: no row is dropped as a duplicate
DedupChoices_KeepAll(d) == {1..NRows(d)}

\* Mutation of IsReleased: a Rumored record passes the status filter too
IsReleased_AnyStatus(r) == NotNull(r["status"])

\* dropDuplicates(['id']) keeps one row of every group of rows with the same
\* id (null ids form one group); Spark does not say which.  A choice is the
\* set of the row indices kept.
DedupChoices(d) ==
    {K \in SUBSET (1..NRows(d)) :
        \A i \in 1..NRows(d) :
            Cardinality({k \in K : d.rows[k]["id"] = d.rows[i]["id"]}) = 1}

dropDuplicates(d, K) == FilterRows(d, K)

\* Mutation of HasIdAndTitle: a null title passes
HasIdAndTitle_IdOnly(r) == NotNull(r["id"])

\* F.col('id').isNotNull() & F.col('title').isNotNull()
HasIdAndTitle(r) == NotNull(r["id"]) /\ NotNull(r["title"])

\* F.col('status') == 'Released'
IsReleased(r) == r["status"] = V("Released")

\* dropDuplicates(['id']) and F.col('title') need their columns
FilterRaises(d) == ~HasCol(d, "id") \/ ~HasCol(d, "title")

\* lines 215-221, on the deduplicated DataFrame
filter_valid(d) ==
    LET d1 == FilterRows(d, {i \in 1..NRows(d) : HasIdAndTitle(d.rows[i])})
    IN  IF HasCol(d1, "status")
        THEN DropCols(FilterRows(d1, {i \in 1..NRows(d1) : IsReleased(d1.rows[i])}),
                      {"status"})
        ELSE d1

\* The rows of d in the order p: a DataFrame's row order after a shuffle
Reorder(d, p) == [d EXCEPT !.rows = [i \in 1..NRows(d) |-> d.rows[p[i]]]]

\* F.year
year(v) == IF IsNull(v) THEN Null ELSE V(Val(v).year)

\* F.when(F.col(c) == 'nan', None).otherwise(F.col(c))
NanToNull(v) == IF NotNull(v) /\ Val(v) = "nan" THEN Null ELSE v

text_cols == <<"tagline", "title", "collection_name">>

RECURSIVE ReplaceNan(_, _)
ReplaceNan(d, cs) ==
    IF cs = <<>> THEN d
    ELSE LET c == Head(cs)
             e == IF HasCol(d, c)
                  THEN WithColumn(d, c, d.types[c],
                         [i \in 1..NRows(d) |-> NanToNull(d.rows[i][c])])
                  ELSE d
         IN  ReplaceNan(e, Tail(cs))

\* lines 247-258
ExtractCredits(d) ==
    LET d1 == WithColumn(d, "cast", "string",
                [i \in 1..NRows(d) |-> extract_top_cast(d.rows[i]["credits"])])
        d2 == WithColumn(d1, "cast_size", "int",
                [i \in 1..NRows(d) |-> get_cast_size(d.rows[i]["credits"])])
        d3 == WithColumn(d2, "director", "string",
                [i \in 1..NRows(d) |-> extract_director(d.rows[i]["credits"])])
    IN  WithColumn(d3, "crew_size", "int",
                [i \in 1..NRows(d) |-> get_crew_size(d.rows[i]["credits"])])

engineer_features(d) ==
    LET d1 == IF HasCol(d, "credits") THEN ExtractCredits(d) ELSE d
        d2 == IF HasCol(d1, "release_date")
              THEN WithColumn(d1, "release_year", "int",
                     [i \in 1..NRows(d1) |-> year(d1.rows[i]["release_date"])])
              ELSE d1
    IN  ReplaceNan(d2, text_cols)

\* Mutation of sort_genres: a record without genres is dropped
sort_genres_DropsNull(d) ==
    IF HasCol(d, "genres")
    THEN FilterRows(d, {i \in 1..NRows(d) : NotNull(d.rows[i]["genres"])})
    ELSE d

sort_genres(d) ==
    IF HasCol(d, "genres")
    THEN WithColumn(d, "genres", "string",
           [i \in 1..NRows(d) |-> sort_pipe_separated(d.rows[i]["genres"], d.types["genres"])])
    ELSE d

desired_order ==
    <<"id", "title", "tagline", "release_date", "genres", "collection_name",
      "original_language", "budget_musd", "revenue_musd", "production_companies",
      "production_countries", "vote_count", "vote_average", "popularity",
      "runtime", "overview", "spoken_languages",
      "cast", "cast_size", "director", "crew_size", "release_year", "keywords">>

\* Mutation of finalize_dataframe: the columns are left as they are
finalize_dataframe_Keep(d) == d

finalize_dataframe(d) ==
    SelectCols(d, SelectSeq(desired_order, LAMBDA c : HasCol(d, c)))

----------------------------------------------------------------------------
(* The raw input of the cleaning pipeline *)

RawColumns == <<"id", "title", "status", "adult", "genres",
                "belongs_to_collection", "budget", "release_date">>

RawTypes == [c \in Range(RawColumns) |->
    CASE c \in {"id", "budget"} -> "long"
      [] c = "adult" -> "boolean"
      [] c = "genres" -> "array"
      [] c = "belongs_to_collection" -> "struct"
      [] OTHER -> "string"]

RawIds == {Null, V(1), V(2)}
RawTitles == {Null, V("Good"), V("nan")}
RawStatuses == {V("Released"), V("Rumored")}
RawGenres == {Null, V(<<[name |-> V("Drama")], [name |-> V("Action")]>>)}

RawRow(id, title, status, genres) ==
    [c \in Range(RawColumns) |->
        CASE c = "id" -> id
          [] c = "title" -> title
          [] c = "status" -> status
          [] c = "adult" -> V(FALSE)
          [] c = "genres" -> genres
          [] c = "belongs_to_collection" -> V([name |-> V("Saga")])
          [] c = "budget" -> V(5 * Million)
          [] c = "release_date" -> V([y |-> 2023, m |-> 1, d |-> 1, ok |-> TRUE])]

RawRows == {RawRow(i, t, s, g) : i \in RawIds, t \in RawTitles,
                                 s \in RawStatuses, g \in RawGenres}

RawInputs == UNION {[1..n -> RawRows] : n \in 0..MaxRows}

RawDF(rows) == [columns |-> RawColumns, types |-> RawTypes, rows |-> rows]

EmptyDF == [columns |-> <<>>, types |-> <<>>, rows |-> <<>>]

NoCall == [fn |-> "none"]

----------------------------------------------------------------------------
(* clean_all, one action per stage *)

Stage(from, to, out) ==
    /\ pc = from
    /\ before' = df
    /\ df' = out
    /\ pc' = to
    /\ UNCHANGED <<raw, dedup, run>>
    /\ UNCHANGED kpiVars

Raise(from) ==
    /\ pc = from
    /\ pc' = "fault"
    /\ before' = df
    /\ UNCHANGED <<raw, df, dedup, run>>
    /\ UNCHANGED kpiVars

DropIrrelevantColumns == Stage("start", "dropped", drop_irrelevant_columns(df))

FlattenNestedColumns ==
    IF FlattenRaises(df)
    THEN Raise("dropped")
    ELSE Stage("dropped", "flattened", flatten_nested_columns(df))

CleanDatatypes == Stage("flattened", "typed", clean_datatypes(df))

FilterData ==
    IF FilterRaises(df)
    THEN Raise("typed")
    ELSE /\ pc = "typed"
         /\ \E K \in DedupChoices(df) :
              LET dd == dropDuplicates(df, K)
                  out == filter_valid(dd)
              IN  /\ dedup' = dd
                  /\ \E p \in Perms(NRows(out)) : df' = Reorder(out, p)
         /\ before' = df
         /\ pc' = "filtered"
         /\ UNCHANGED <<raw, run>>
         /\ UNCHANGED kpiVars

EngineerFeatures == Stage("filtered", "engineered", engineer_features(df))

SortGenres == Stage("engineered", "sorted", sort_genres(df))

FinalizeDataframe == Stage("sorted", "done", finalize_dataframe(df))

\* clean_all is called again, on what it returned
CleanAllAgain ==
    /\ pc = "done"
    /\ run < MaxRuns
    /\ raw' = df
    /\ before' = df
    /\ dedup' = df
    /\ pc' = "start"
    /\ run' = run + 1
    /\ UNCHANGED df
    /\ UNCHANGED kpiVars

Init ==
    /\ \E rows \in RawInputs : raw = RawDF(rows)
    /\ df = raw
    /\ before = raw
    /\ dedup = raw
    /\ pc = "start"
    /\ run = 1
    /\ kdf = EmptyDF
    /\ spark = Null
    /\ call = NoCall
    /\ df_calc = EmptyDF
    /\ result = EmptyDF
    /\ activeSession = Null
    /\ built = 0

Next ==
    \/ DropIrrelevantColumns
    \/ FlattenNestedColumns
    \/ CleanDatatypes
    \/ FilterData
    \/ EngineerFeatures
    \/ SortGenres
    \/ FinalizeDataframe
    \/ CleanAllAgain

Spec == Init /\ [][Next]_vars

----------------------------------------------------------------------------
(* analytics/kpi_calculator.py: SparkKPICalculator.rank_movies *)

Hundred == 100
RoiBudgetFloor == 10
RatedVotesFloor == 10

\* F.col('revenue_musd') - F.col('budget_musd'): null if either is null
profit_musd(r) ==
    IF IsNull(r["revenue_musd"]) \/ IsNull(r["budget_musd"]) THEN Null
    ELSE V(RSub(Val(r["revenue_musd"]), Val(r["budget_musd"])))

\* Mutation of roi_kpi: the ratio is not turned into a percentage
roi_kpi_NoPercent(r) ==
    IF NotNull(r["budget_musd"]) /\ RLt(RInt(0), Val(r["budget_musd"]))
    THEN IF IsNull(r["revenue_musd"]) THEN Null
         ELSE V(RDivPos(RSub(Val(r["revenue_musd"]), Val(r["budget_musd"])),
                        Val(r["budget_musd"])))
    ELSE Null

\* F.when(budget_musd > 0, (revenue_musd - budget_musd) / budget_musd * 100)
\*  .otherwise(None); the arithmetic is null if an operand is null
roi_kpi(r) ==
    IF NotNull(r["budget_musd"]) /\ RLt(RInt(0), Val(r["budget_musd"]))
    THEN IF IsNull(r["revenue_musd"]) THEN Null
         ELSE V(RMul(RDivPos(RSub(Val(r["revenue_musd"]), Val(r["budget_musd"])),
                             Val(r["budget_musd"])),
                     RInt(Hundred)))
    ELSE Null

\* lines 63-86: the derived columns rank_movies adds for the metric
rank_derived(d, metric) ==
    LET d1 == IF ~HasCol(d, "release_year") /\ HasCol(d, "release_date")
              THEN WithColumn(d, "release_year", "int",
                     [i \in 1..NRows(d) |-> year(d.rows[i]["release_date"])])
              ELSE d
        d2 == IF /\ metric = "profit_musd"
                 /\ ~HasCol(d1, "profit_musd")
                 /\ HasCol(d1, "revenue_musd")
                 /\ HasCol(d1, "budget_musd")
              THEN WithColumn(d1, "profit_musd", "double",
                     [i \in 1..NRows(d1) |-> profit_musd(d1.rows[i])])
              ELSE d1
    IN  IF /\ metric = "roi"
           /\ ~HasCol(d2, "roi")
           /\ HasCol(d2, "revenue_musd")
           /\ HasCol(d2, "budget_musd")
        THEN WithColumn(d2, "roi", "double",
               [i \in 1..NRows(d2) |-> roi_kpi(d2.rows[i])])
        ELSE d2

\* The filter_condition arguments the callers pass: none, or a floor on a column
FilterColumn(f) ==
    CASE f = "budget_floor" -> "budget_musd"
      [] f = "votes_floor" -> "vote_count"

FilterFloor(f) ==
    CASE f = "budget_floor" -> RoiBudgetFloor
      [] f = "votes_floor" -> RatedVotesFloor

\* Mutation of FilterAccepts: the floor is not applied
FilterAccepts_NoFloor(f, r) == TRUE

\* F.col(c) >= floor: a null cell does not satisfy it
FilterAccepts(f, r) ==
    \/ f = "none"
    \/ /\ f # "none"
       /\ NotNull(r[FilterColumn(f)])
       /\ RLe(RInt(FilterFloor(f)), Val(r[FilterColumn(f)]))

\* df.filter(filter_condition) raises AnalysisException on an unknown column
FilterConditionRaises(d, f) == f # "none" /\ ~HasCol(d, FilterColumn(f))

\* lines 88-94: the rows left by the filter and by metric.isNotNull()
Qualifying(d, metric, f) ==
    {i \in 1..NRows(d) : FilterAccepts(f, d.rows[i]) /\ NotNull(d.rows[i][metric])}

\* a.asc() / a.desc() between two non-null cells: a may come before b
MayPrecede(a, b, ascending) ==
    IF ascending THEN RLe(Val(a), Val(b)) ELSE RLe(Val(b), Val(a))

\* Mutation of SortedOrders: the rows are left unsorted
SortedOrders_Unsorted(d, Q, metric, ascending) ==
    {o \in [1..Cardinality(Q) -> Q] :
        \A i, j \in 1..Cardinality(Q) : i # j => o[i] # o[j]}

\* orderBy(metric): every order of the rows Q that is sorted by the metric;
\* Spark leaves the order of rows with equal metric open
SortedOrders(d, Q, metric, ascending) ==
    {o \in [1..Cardinality(Q) -> Q] :
        /\ \A i, j \in 1..Cardinality(Q) : i # j => o[i] # o[j]
        /\ \A i, j \in 1..Cardinality(Q) :
              i < j => MayPrecede(d.rows[o[i]][metric], d.rows[o[j]][metric], ascending)}

\* Mutation of RowNumber: ranks count from 0
RowNumber_FromZero(i) == i - 1

\* F.row_number() of the i-th row of the window
RowNumber(i) == i

\* lines 106-111: limit(top_n), then row_number over Window.orderBy(F.lit(1)),
\* which leaves the limited rows in their sorted order
TopRanked(d, o, top_n) ==
    LET k == Min(top_n, Len(o))
        top == [d EXCEPT !.rows = [i \in 1..k |-> d.rows[o[i]]]]
    IN  WithColumn(top, "rank", "int", [i \in 1..k |-> V(RowNumber(i))])

\* lines 116-135: the default display columns of a metric
optional_cols(metric) ==
    CASE metric \in {"revenue_musd", "budget_musd", "profit_musd"} ->
            <<"release_year", "budget_musd", "revenue_musd">>
      [] metric = "roi" -> <<"release_year", "budget_musd", "revenue_musd", "roi">>
      [] metric \in {"vote_average", "vote_count"} ->
            <<"release_year", "vote_average", "vote_count">>
      [] metric = "popularity" -> <<"release_year", "popularity", "vote_average">>
      [] OTHER -> <<"release_year">>

default_display(d, metric) ==
    <<"rank", "title", metric>> \o
    SelectSeq(optional_cols(metric),
              LAMBDA c : c \notin {"rank", "title", metric} /\ HasCol(d, c))

\* createDataFrame([], schema="rank INT, title STRING")
MetricNotFoundDF ==
    [columns |-> <<"rank", "title">>,
     types   |-> [c \in {"rank", "title"} |-> IF c = "rank" THEN "int" ELSE "string"],
     rows    |-> <<>>]

\* What rank_movies returns for the sorted order o of the qualifying rows of
\* dc, the DataFrame with the derived columns
rank_result(dc, sp, metric, top_n, f, display, o) ==
    IF FilterConditionRaises(dc, f) THEN Fault
    ELSE IF ~HasCol(dc, metric)
         THEN IF IsNull(sp) THEN Fault ELSE MetricNotFoundDF
    ELSE LET top == TopRanked(dc, o, top_n)
             cols == IF IsNull(display) THEN default_display(top, metric)
                     ELSE Val(display)
         IN  IF \E i \in 1..Len(cols) : ~HasCol(top, cols[i]) THEN Fault
             ELSE SelectCols(top, cols)

\* The sorted orders rank_movies may see; one empty order when it returns early
rank_orders(dc, metric, ascending, f) ==
    IF FilterConditionRaises(dc, f) \/ ~HasCol(dc, metric) THEN {<<>>}
    ELSE SortedOrders(dc, Qualifying(dc, metric, f), metric, ascending)

\* The convenience wrappers, lines 144-324
Wrappers ==
    {[fn |-> "get_top_by_revenue", metric |-> "revenue_musd", ascending |-> FALSE, filter |-> "none"],
     [fn |-> "get_bottom_by_revenue", metric |-> "revenue_musd", ascending |-> TRUE, filter |-> "none"],
     [fn |-> "get_top_by_budget", metric |-> "budget_musd", ascending |-> FALSE, filter |-> "none"],
     [fn |-> "get_bottom_by_budget", metric |-> "budget_musd", ascending |-> TRUE, filter |-> "none"],
     [fn |-> "get_top_by_profit", metric |-> "profit_musd", ascending |-> FALSE, filter |-> "none"],
     [fn |-> "get_bottom_by_profit", metric |-> "profit_musd", ascending |-> TRUE, filter |-> "none"],
     [fn |-> "get_top_by_roi", metric |-> "roi", ascending |-> FALSE, filter |-> "budget_floor"],
     [fn |-> "get_bottom_by_roi", metric |-> "roi", ascending |-> TRUE, filter |-> "budget_floor"],
     [fn |-> "get_most_voted", metric |-> "vote_count", ascending |-> FALSE, filter |-> "none"],
     [fn |-> "get_top_rated", metric |-> "vote_average", ascending |-> FALSE, filter |-> "votes_floor"],
     [fn |-> "get_bottom_rated", metric |-> "vote_average", ascending |-> TRUE, filter |-> "votes_floor"],
     [fn |-> "get_most_popular", metric |-> "popularity", ascending |-> FALSE, filter |-> "none"]}

----------------------------------------------------------------------------
(* analytics/aggregations.py: compare_franchise_vs_standalone *)

RAdd(a, b) == Rat(a.num * b.den + b.num * a.den, a.den * b.den)

RECURSIVE RSum(_)
RSum(s) == IF s = <<>> THEN RInt(0) ELSE RAdd(Head(s), RSum(Tail(s)))

\* The non-null cells of column c in the rows idx of d, in row order
RECURSIVE NonNullFrom(_, _, _, _)
NonNullFrom(d, idx, c, i) ==
    IF i > NRows(d) THEN <<>>
    ELSE (IF i \in idx /\ NotNull(d.rows[i][c]) THEN <<Val(d.rows[i][c])>> ELSE <<>>)
         \o NonNullFrom(d, idx, c, i + 1)

NonNull(d, idx, c) == NonNullFrom(d, idx, c, 1)

\* F.mean: the mean of the non-null cells, null when there is none
mean(vals) ==
    IF vals = <<>> THEN Null ELSE V(RDivPos(RSum(vals), RInt(Len(vals))))

\* percentile_approx(c, 0.5), exact on these sizes: the value of rank
\* ceil(0.5 * n) among the n non-null cells in ascending order
percentile_approx_50(vals) ==
    IF vals = <<>> THEN Null
    ELSE LET n == Len(vals)
             o == CHOOSE q \in Perms(n) :
                     \A i, j \in 1..n : i < j => RLe(vals[q[i]], vals[q[j]])
         IN  V(vals[o[(n + 1) \div 2]])

\* Mutation of is_franchise: every row is labelled a franchise movie
is_franchise_AllFranchise(r) == "Franchise"

\* F.when(F.col('collection_name').isNotNull(), 'Franchise').otherwise('Standalone')
is_franchise(r) == IF NotNull(r["collection_name"]) THEN "Franchise" ELSE "Standalone"

\* lines 59-66: the same expression as in rank_movies
roi_agg(r) ==
    IF NotNull(r["budget_musd"]) /\ RLt(RInt(0), Val(r["budget_musd"]))
    THEN IF IsNull(r["revenue_musd"]) THEN Null
         ELSE V(RMul(RDivPos(RSub(Val(r["revenue_musd"]), Val(r["budget_musd"])),
                             Val(r["budget_musd"])),
                     RInt(Hundred)))
    ELSE Null

compare_cols == {"collection_name", "revenue_musd", "budget_musd", "popularity",
                 "vote_average"}

\* an unknown column raises AnalysisException
CompareRaises(d) == \E c \in compare_cols : ~HasCol(d, c)

\* lines 50-66: df_calc
compare_derived(d) ==
    LET d1 == WithColumn(d, "is_franchise", "string",
                [i \in 1..NRows(d) |-> V(is_franchise(d.rows[i]))])
        d2 == WithColumn(d1, "profit_musd", "double",
                [i \in 1..NRows(d1) |-> profit_musd(d1.rows[i])])
    IN  WithColumn(d2, "roi", "double",
                [i \in 1..NRows(d2) |-> roi_agg(d2.rows[i])])

compare_columns ==
    <<"is_franchise", "movie_count", "mean_revenue_musd", "median_roi",
      "mean_budget_musd", "mean_popularity", "mean_rating">>

\* lines 69-76: the aggregates of the group with the given label
compare_group(dc, label) ==
    LET idx == {i \in 1..NRows(dc) : dc.rows[i]["is_franchise"] = V(label)}
    IN  [c \in Range(compare_columns) |->
            CASE c = "is_franchise" -> V(label)
              [] c = "movie_count" -> V(Cardinality(idx))
              [] c = "mean_revenue_musd" -> mean(NonNull(dc, idx, "revenue_musd"))
              [] c = "median_roi" -> percentile_approx_50(NonNull(dc, idx, "roi"))
              [] c = "mean_budget_musd" -> mean(NonNull(dc, idx, "budget_musd"))
              [] c = "mean_popularity" -> mean(NonNull(dc, idx, "popularity"))
              [] c = "mean_rating" -> mean(NonNull(dc, idx, "vote_average"))]

\* orderBy(F.col('is_franchise').desc()): 'Standalone' > 'Franchise' as strings
labels_desc == <<"Standalone", "Franchise">>

\* groupBy yields a group for every label that some row carries
compare_result(dc) ==
    LET present == SelectSeq(labels_desc,
                     LAMBDA l : \E i \in 1..NRows(dc) : dc.rows[i]["is_franchise"] = V(l))
    IN  [columns |-> compare_columns,
         types   |-> [c \in Range(compare_columns) |->
                        CASE c = "is_franchise" -> "string"
                          [] c = "movie_count" -> "long"
                          [] OTHER -> "double"],
         rows    |-> [i \in 1..Len(present) |-> compare_group(dc, present[i])]]

----------------------------------------------------------------------------
(* analytics/aggregations.py: get_top_franchises and get_top_directors *)

\* Mutation of sum: the total is computed as the mean
sum_Mean(vals) == mean(vals)

\* F.sum: the sum of the non-null cells, null when there is none
sum(vals) == IF vals = <<>> THEN Null ELSE V(RSum(vals))

\* df.filter(F.col(key).isNotNull()).groupBy(key): the distinct non-null values
\* of the key column, here in the order of their first row
GroupKeys(d, key) ==
    LET firsts == {i \in 1..NRows(d) :
                      /\ NotNull(d.rows[i][key])
                      /\ \A j \in 1..(i - 1) : d.rows[j][key] # d.rows[i][key]}
        rs == Pick(d.rows, firsts)
    IN  [k \in 1..Len(rs) |-> rs[k][key]]

stats_columns(key) ==
    <<key, "movie_count", "total_budget_musd", "mean_budget_musd",
      "total_revenue_musd", "mean_revenue_musd", "mean_rating", "mean_vote_count">>

\* the columns the aggregation reads
stats_inputs(key) == {key, "budget_musd", "revenue_musd", "vote_average", "vote_count"}

\* lines 106-117 and 168-179: one row of aggregates per non-null key
group_stats(d, key) ==
    LET keys == GroupKeys(d, key)
        cols == stats_columns(key)
    IN  [columns |-> cols,
         types   |-> [c \in Range(cols) |->
                        CASE c = key -> "string"
                          [] c = "movie_count" -> "long"
                          [] OTHER -> "double"],
         rows    |-> [k \in 1..Len(keys) |->
                        LET idx == {i \in 1..NRows(d) : d.rows[i][key] = keys[k]}
                        IN  [c \in Range(cols) |->
                               CASE c = key -> keys[k]
                                 [] c = "movie_count" -> V(Cardinality(idx))
                                 [] c = "total_budget_musd" -> sum(NonNull(d, idx, "budget_musd"))
                                 [] c = "mean_budget_musd" -> mean(NonNull(d, idx, "budget_musd"))
                                 [] c = "total_revenue_musd" -> sum(NonNull(d, idx, "revenue_musd"))
                                 [] c = "mean_revenue_musd" -> mean(NonNull(d, idx, "revenue_musd"))
                                 [] c = "mean_rating" -> mean(NonNull(d, idx, "vote_average"))
                                 [] c = "mean_vote_count" -> mean(NonNull(d, idx, "vote_count"))]]]

\* Mutation of MeetsMinMovies: the threshold is not applied
MeetsMinMovies_Always(r, min_movies) == TRUE

\* line 182: F.col('movie_count') >= min_movies
MeetsMinMovies(r, min_movies) == Val(r["movie_count"]) >= min_movies

\* The value of the sort column as a double (movie_count is a long)
SortKey(r, sort_by) ==
    IF IsNull(r[sort_by]) THEN Null
    ELSE IF sort_by = "movie_count" THEN V(RInt(Val(r[sort_by]))) ELSE r[sort_by]

\* F.col(sort_by).desc(): a may come before b; nulls come last
DescMayPrecede(a, b) == IsNull(b) \/ (NotNull(a) /\ RLe(Val(b), Val(a)))

\* Mutation of DescOrders: the rows are left unsorted
DescOrders_Unsorted(d, Q, sort_by) ==
    {o \in [1..Cardinality(Q) -> Q] :
        \A i, j \in 1..Cardinality(Q) : i # j => o[i] # o[j]}

\* orderBy(F.col(sort_by).desc()) of the rows Q of d: every order sorted by the
\* column; the order of rows with equal values is left open
DescOrders(d, Q, sort_by) ==
    {o \in [1..Cardinality(Q) -> Q] :
        /\ \A i, j \in 1..Cardinality(Q) : i # j => o[i] # o[j]
        /\ \A i, j \in 1..Cardinality(Q) :
              i < j => DescMayPrecede(SortKey(d.rows[o[i]], sort_by),
                                      SortKey(d.rows[o[j]], sort_by))}

\* limit(top_n) of the sorted order o: the rows kept
Limited(o, top_n) == {o[i] : i \in 1..Min(top_n, Len(o))}

\* lines 124-138 and 188-202: row_number over Window.orderBy(sort_by desc) of
\* the limited rows in their window order w, then the display columns
ranked_stats(st, key, w) ==
    LET top == [st EXCEPT !.rows = [i \in 1..Len(w) |-> st.rows[w[i]]]]
        ranked == WithColumn(top, "rank", "int", [i \in 1..Len(w) |-> V(RowNumber(i))])
    IN  SelectCols(ranked, <<"rank">> \o stats_columns(key))

----------------------------------------------------------------------------
(* The cleaned DataFrame the analytics calls are given *)

KpiColumns == <<"id", "title", "collection_name", "budget_musd", "revenue_musd",
                "vote_count", "vote_average", "popularity", "release_year">>

KpiTypes == [c \in Range(KpiColumns) |->
    CASE c \in {"id", "vote_count"} -> "long"
      [] c = "release_year" -> "int"
      [] c \in {"title", "collection_name"} -> "string"
      [] OTHER -> "double"]

Num(n) == V(RInt(n))

Movie(id, title, coll, b, r, vc, va, pop) ==
    [c \in Range(KpiColumns) |->
        CASE c = "id" -> V(id)
          [] c = "title" -> V(title)
          [] c = "collection_name" -> coll
          [] c = "budget_musd" -> b
          [] c = "revenue_musd" -> r
          [] c = "vote_count" -> vc
          [] c = "vote_average" -> va
          [] c = "popularity" -> pop
          [] c = "release_year" -> V(2020)]

\* The movies of tests/test_analytics.py (High Rev, Low Rev, Flop) and movies
\* with a null revenue, a null budget, a zero budget and a budget under the floor
Catalogue ==
    <<Movie(1, "High Rev", V("Franchise A"), Num(50), Num(100), Num(100), Num(8), Num(10)),
      Movie(2, "Low Rev", Null, Num(5), Num(10), Num(5), Num(9), Num(1)),
      Movie(3, "Flop", V("Franchise A"), Num(20), Num(1), Num(50), Num(2), Num(5)),
      Movie(4, "No Revenue", Null, Num(20), Null, Num(50), Num(8), Null),
      Movie(5, "No Budget", V("Franchise B"), Null, Num(40), Null, Null, Num(5)),
      Movie(6, "Zero Budget", Null, Num(0), Num(10), Num(10), Num(9), Num(10)),
      Movie(7, "Cheap Hit", V("Franchise B"), Num(5), Num(100), Num(200), Num(6), Num(7))>>

\* The input schemas: all columns, or one of these columns absent
KpiAbsent == {{}, {"budget_musd"}, {"revenue_musd"}}

KpiInputs ==
    {DropCols([columns |-> KpiColumns, types |-> KpiTypes, rows |-> Pick(Catalogue, S)], A) :
        S \in {T \in SUBSET (1..Len(Catalogue)) : Cardinality(T) <= MaxMovies},
        A \in KpiAbsent}

Metrics == {"revenue_musd", "budget_musd", "profit_musd", "roi", "vote_average",
            "vote_count", "popularity", "rating"}

Filters == {"none", "budget_floor", "votes_floor"}

Displays == {Null, V(<<"rank", "title">>)}

----------------------------------------------------------------------------
(* The analytics calls *)

\* A call is made on the unchanged kdf once the caller has dropped the result
\* of the call before
Returns(c, dc, res) ==
    /\ call' = c
    /\ df_calc' = dc
    /\ result' = res
    /\ UNCHANGED <<kdf, spark, activeSession, built>>
    /\ UNCHANGED cleanVars

\* rank_movies(df, metric, ascending, top_n, filter_condition, display_columns)
RankMovies ==
    /\ call = NoCall
    /\ \E metric \in Metrics, f \in Filters :
        \E dc \in {rank_derived(kdf, metric)} :
        \E ascending \in BOOLEAN :
        \E o \in rank_orders(dc, metric, ascending, f) :
        \E top_n \in 1..MaxTopN, display \in Displays :
            Returns([fn |-> "rank_movies", metric |-> metric,
                     ascending |-> ascending, top_n |-> top_n, filter |-> f],
                    dc,
                    rank_result(dc, spark, metric, top_n, f, display, o))

\* get_top_by_revenue ... get_most_popular: rank_movies with fixed arguments
RankWrapper ==
    /\ call = NoCall
    /\ \E w \in Wrappers :
        \E dc \in {rank_derived(kdf, w.metric)} :
        \E o \in rank_orders(dc, w.metric, w.ascending, w.filter) :
        \E top_n \in 1..MaxTopN :
            Returns([fn |-> w.fn, metric |-> w.metric,
                     ascending |-> w.ascending, top_n |-> top_n, filter |-> w.filter],
                    dc,
                    rank_result(dc, spark, w.metric, top_n, w.filter, Null, o))

CompareFranchiseVsStandalone ==
    /\ call = NoCall
    /\ IF CompareRaises(kdf)
       THEN Returns([fn |-> "compare_franchise_vs_standalone"], kdf, Fault)
       ELSE \E dc \in {compare_derived(kdf)} :
                Returns([fn |-> "compare_franchise_vs_standalone"],
                        dc, compare_result(dc))

\* The caller drops the result; the calculator keeps no state of the call
Discard ==
    /\ call # NoCall
    /\ call' = NoCall
    /\ df_calc' = kdf
    /\ result' = EmptyDF
    /\ UNCHANGED <<kdf, spark, activeSession, built>>
    /\ UNCHANGED cleanVars

KpiInit ==
    /\ kdf \in KpiInputs
    /\ spark \in {Null, V("session")}
    /\ call = NoCall
    /\ df_calc = kdf
    /\ result = EmptyDF
    /\ activeSession = Null
    /\ built = 0
    /\ raw = EmptyDF
    /\ df = EmptyDF
    /\ before = EmptyDF
    /\ dedup = EmptyDF
    /\ pc = "idle"
    /\ run = 0

KpiNext ==
    \/ RankMovies
    \/ RankWrapper
    \/ CompareFranchiseVsStandalone
    \/ Discard

KpiSpec == KpiInit /\ [][KpiNext]_vars

----------------------------------------------------------------------------
(* analytics/filters.py.  A string is the sequence of its characters, so   *)
(* that Column.contains is substring containment and F.lower / str.lower   *)
(* act on every character.                                                 *)

UpperCase == <<"A", "B", "C", "D", "E", "F", "G", "H", "I", "J", "K", "L", "M", "N", "O", "P", "Q", "R", "S", "T", "U", "V", "W", "X", "Y", "Z">>
LowerCase == <<"a", "b", "c", "d", "e", "f", "g", "h", "i", "j", "k", "l", "m", "n", "o", "p", "q", "r", "s", "t", "u", "v", "w", "x", "y", "z">>

\* Mutation of LowerChar: the case is kept
LowerChar_Same(ch) == ch

LowerChar(ch) ==
    IF \E i \in 1..Len(UpperCase) : UpperCase[i] = ch
    THEN LowerCase[CHOOSE i \in 1..Len(UpperCase) : UpperCase[i] = ch]
    ELSE ch

\* str.lower() and F.lower of a non-null string
lower(str) == [i \in 1..Len(str) |-> LowerChar(str[i])]

\* t occurs in str as a substring
IsSubstring(t, str) ==
    \E i \in 0..(Len(str) - Len(t)) : SubSeq(str, i + 1, i + Len(t)) = t

\* SQL booleans: a condition on a null cell is null, and filter keeps the
\* rows whose condition is true
True3 == "true"
False3 == "false"
Null3 == "null"

And3(a, b) ==
    IF a = False3 \/ b = False3 THEN False3
    ELSE IF a = Null3 \/ b = Null3 THEN Null3 ELSE True3

Or3(a, b) ==
    IF a = True3 \/ b = True3 THEN True3
    ELSE IF a = Null3 \/ b = Null3 THEN Null3 ELSE False3

Bool3(b) == IF b THEN True3 ELSE False3

\* F.col(c).contains(t) on the cell v
contains(v, t) == IF IsNull(v) THEN Null3 ELSE Bool3(IsSubstring(t, Val(v)))

\* F.lower(F.col(c)).contains(t.lower()) on the cell v
lower_contains(v, t) ==
    IF IsNull(v) THEN Null3 ELSE Bool3(IsSubstring(lower(t), lower(Val(v))))

\* F.col(c).isNotNull() on the cell v
isNotNull(v) == Bool3(NotNull(v))

\* Mutation of ge: the comparison is strict
ge_Strict(v, n) == IF IsNull(v) THEN Null3 ELSE Bool3(RLt(RInt(n), Val(v)))

\* F.col(c) >= n on the cell v
ge(v, n) == IF IsNull(v) THEN Null3 ELSE Bool3(RLe(RInt(n), Val(v)))

\* An argument that is a str or a list of str
Str(str) == [kind |-> "str", val |-> str]
List(l) == [kind |-> "list", val |-> l]

\* Mutation of AsList: a str is not wrapped, and iterating it gives its
\* characters
AsList_Unwrapped(arg) ==
    IF arg.kind = "str" THEN [i \in 1..Len(arg.val) |-> <<arg.val[i]>>] ELSE arg.val

\* lines 54-55: if isinstance(genres, str): genres = [genres]
AsList(arg) == IF arg.kind = "str" THEN <<arg.val>> ELSE arg.val

\* lines 60-62: condition = F.lit(True); condition = condition & contains(genre)
RECURSIVE AllContained(_, _)
AllContained(v, tokens) ==
    IF tokens = <<>> THEN True3
    ELSE And3(AllContained(v, SubSeq(tokens, 1, Len(tokens) - 1)),
              contains(v, tokens[Len(tokens)]))

\* lines 65-67: condition = F.lit(False); condition = condition | contains(genre)
RECURSIVE AnyContained(_, _)
AnyContained(v, tokens) ==
    IF tokens = <<>> THEN False3
    ELSE Or3(AnyContained(v, SubSeq(tokens, 1, Len(tokens) - 1)),
             contains(v, tokens[Len(tokens)]))

\* lines 212-214 and 223-225: the same with lower on both sides
RECURSIVE AnyLowerContained(_, _)
AnyLowerContained(v, names) ==
    IF names = <<>> THEN False3
    ELSE Or3(AnyLowerContained(v, SubSeq(names, 1, Len(names) - 1)),
             lower_contains(v, names[Len(names)]))

\* df.filter(condition): the rows whose condition is true
RowsWhere(d, cond) == FilterRows(d, {i \in 1..NRows(d) : cond[i] = True3})

\* filter_by_genres(df, genres, match_all)
filter_by_genres(d, genres, match_all) ==
    IF ~HasCol(d, "genres") THEN Fault
    ELSE RowsWhere(d, [i \in 1..NRows(d) |->
            IF match_all THEN AllContained(d.rows[i]["genres"], AsList(genres))
            ELSE AnyContained(d.rows[i]["genres"], AsList(genres))])

\* lines 94-104 and 127-137: filter_by_actor on 'cast', filter_by_director on
\* 'director'
filter_by_name(d, c, name, case_sensitive) ==
    IF ~HasCol(d, c) THEN FilterRows(d, {})
    ELSE RowsWhere(d, [i \in 1..NRows(d) |->
            And3(IF case_sensitive THEN contains(d.rows[i][c], name)
                 ELSE lower_contains(d.rows[i][c], name),
                 isNotNull(d.rows[i][c]))])

filter_by_actor(d, actor_name, case_sensitive) ==
    filter_by_name(d, "cast", actor_name, case_sensitive)

filter_by_director(d, director_name, case_sensitive) ==
    filter_by_name(d, "director", director_name, case_sensitive)

\* The optional filters of search_movies: the columns they read
search_reads(a) ==
    (IF NotNull(a.genres) THEN {"genres"} ELSE {}) \cup
    (IF NotNull(a.actors) THEN {"cast"} ELSE {}) \cup
    (IF NotNull(a.directors) THEN {"director"} ELSE {}) \cup
    (IF NotNull(a.min_rating) THEN {"vote_average"} ELSE {}) \cup
    (IF NotNull(a.min_votes) THEN {"vote_count"} ELSE {})

\* an unknown column raises AnalysisException
SearchRaises(d, a) == \E c \in search_reads(a) : ~HasCol(d, c)

\* lines 201-235: the filters of search_movies, one after the other
search_filtered(d, a) ==
    LET d1 == IF IsNull(a.genres) THEN d
              ELSE filter_by_genres(d, Val(a.genres), TRUE)
        d2 == IF IsNull(a.actors) THEN d1
              ELSE RowsWhere(d1, [i \in 1..NRows(d1) |->
                      And3(AnyLowerContained(d1.rows[i]["cast"], AsList(Val(a.actors))),
                           isNotNull(d1.rows[i]["cast"]))])
        d3 == IF IsNull(a.directors) THEN d2
              ELSE RowsWhere(d2, [i \in 1..NRows(d2) |->
                      And3(AnyLowerContained(d2.rows[i]["director"], AsList(Val(a.directors))),
                           isNotNull(d2.rows[i]["director"]))])
        d4 == IF IsNull(a.min_rating) THEN d3
              ELSE RowsWhere(d3, [i \in 1..NRows(d3) |->
                      ge(d3.rows[i]["vote_average"], Val(a.min_rating))])
    IN  IF IsNull(a.min_votes) THEN d4
        ELSE RowsWhere(d4, [i \in 1..NRows(d4) |->
                ge(d4.rows[i]["vote_count"], Val(a.min_votes))])

\* F.col(c).asc() puts nulls first, F.col(c).desc() puts them last
SearchMayPrecede(a, b, ascending) ==
    IF ascending THEN IsNull(a) \/ (NotNull(b) /\ RLe(Val(a), Val(b)))
    ELSE IsNull(b) \/ (NotNull(a) /\ RLe(Val(b), Val(a)))

\* Mutation of SearchOrders: the rows are never sorted
SearchOrders_Unsorted(d, sort_by, ascending) == {[i \in 1..NRows(d) |-> i]}

\* lines 238-242: the row orders after the sort; the rows keep their order
\* when sort_by is no column
SearchOrders(d, sort_by, ascending) ==
    IF ~HasCol(d, sort_by) THEN {[i \in 1..NRows(d) |-> i]}
    ELSE {o \in Perms(NRows(d)) :
            \A i, j \in 1..NRows(d) :
                i < j => SearchMayPrecede(d.rows[o[i]][sort_by], d.rows[o[j]][sort_by],
                                          ascending)}

\* lines 245-246: limit(top_n) when top_n is given
search_limited(d, o, top_n) ==
    LET k == IF IsNull(top_n) THEN Len(o) ELSE Min(Val(top_n), Len(o))
    IN  [d EXCEPT !.rows = [i \in 1..k |-> d.rows[o[i]]]]

\* lines 276-280 and 306-310: the display columns the result has
select_available(d, display_cols) ==
    SelectCols(d, SelectSeq(display_cols, LAMBDA c : HasCol(d, c)))

----------------------------------------------------------------------------
(* The DataFrame the grouped aggregations are given, and their calls *)

MaxMinMovies == 2

AggColumns == <<"title", "collection_name", "director", "budget_musd",
                "revenue_musd", "vote_average", "vote_count">>

AggTypes == [c \in Range(AggColumns) |->
    CASE c \in {"title", "collection_name", "director"} -> "string"
      [] c = "vote_count" -> "long"
      [] OTHER -> "double"]

AggMovie(title, coll, dir, r, b, va, vc) ==
    [c \in Range(AggColumns) |->
        CASE c = "title" -> V(title)
          [] c = "collection_name" -> coll
          [] c = "director" -> dir
          [] c = "revenue_musd" -> r
          [] c = "budget_musd" -> b
          [] c = "vote_average" -> va
          [] c = "vote_count" -> vc]

\* The movies of agg_data in tests/test_analytics.py (F1, F2, S1), a franchise
\* whose total ties with Franchise A, a movie without director, revenue and
\* budget, and a small third franchise
AggCatalogue ==
    <<AggMovie("F1", V("Franchise A"), V("Director X"), Num(100), Num(50), Num(7), Num(100)),
      AggMovie("F2", V("Franchise A"), V("Director X"), Num(150), Num(60), Num(8), Num(120)),
      AggMovie("S1", Null, V("Director Y"), Num(40), Num(20), Num(6), Num(50)),
      AggMovie("B1", V("Franchise B"), V("Director Y"), Num(250), Num(100), Num(9), Num(80)),
      AggMovie("B2", V("Franchise B"), Null, Null, Null, Num(9), Num(10)),
      AggMovie("C1", V("Franchise C"), V("Director Z"), Num(10), Num(5), Num(5), Num(20))>>

\* The input schemas: all columns, or no director column
AggAbsent == {{}, {"director"}}

AggInputs ==
    {DropCols([columns |-> AggColumns, types |-> AggTypes, rows |-> Pick(AggCatalogue, S)], A) :
        S \in {T \in SUBSET (1..Len(AggCatalogue)) : Cardinality(T) <= MaxMovies},
        A \in AggAbsent}

\* sort_by: columns of the statistics, and 'total_revenue', the name the
\* docstring gives, which is no column
SortBys == {"total_revenue_musd", "mean_rating", "movie_count", "total_revenue"}

\* an unknown column raises AnalysisException
StatsRaises(d, key, sort_by) ==
    \/ \E c \in stats_inputs(key) : ~HasCol(d, c)
    \/ sort_by \notin Range(stats_columns(key))

\* get_top_franchises(df, top_n, sort_by)
GetTopFranchises ==
    /\ call = NoCall
    /\ \E sort_by \in SortBys, top_n \in 1..MaxTopN :
        \E c \in {[fn |-> "get_top_franchises", key |-> "collection_name",
                   sort_by |-> sort_by, top_n |-> top_n]} :
        IF StatsRaises(kdf, c.key, sort_by) THEN Returns(c, kdf, Fault)
        ELSE \E st \in {group_stats(kdf, c.key)} :
             \E o \in DescOrders(st, 1..NRows(st), sort_by) :
             \E w \in DescOrders(st, Limited(o, top_n), sort_by) :
                Returns(c, st, ranked_stats(st, c.key, w))

\* get_top_directors(df, top_n, sort_by, min_movies)
GetTopDirectors ==
    /\ call = NoCall
    /\ \E sort_by \in SortBys, top_n \in 1..MaxTopN, min_movies \in 1..MaxMinMovies :
        \E c \in {[fn |-> "get_top_directors", key |-> "director",
                   sort_by |-> sort_by, top_n |-> top_n, min_movies |-> min_movies]} :
        IF StatsRaises(kdf, c.key, sort_by) THEN Returns(c, kdf, Fault)
        ELSE \E st \in {group_stats(kdf, c.key)} :
             \E o \in DescOrders(st, {i \in 1..NRows(st) :
                                        MeetsMinMovies(st.rows[i], min_movies)}, sort_by) :
             \E w \in DescOrders(st, Limited(o, top_n), sort_by) :
                Returns(c, st, ranked_stats(st, c.key, w))

AggInit ==
    /\ kdf \in AggInputs
    /\ spark = V("session")
    /\ call = NoCall
    /\ df_calc = kdf
    /\ result = EmptyDF
    /\ activeSession = Null
    /\ built = 0
    /\ raw = EmptyDF
    /\ df = EmptyDF
    /\ before = EmptyDF
    /\ dedup = EmptyDF
    /\ pc = "idle"
    /\ run = 0

AggNext ==
    \/ GetTopFranchises
    \/ GetTopDirectors
    \/ Discard

AggSpec == AggInit /\ [][AggNext]_vars

----------------------------------------------------------------------------
(* The DataFrame the filters are given, and their calls *)

\* The genres and names of the docstrings and of the pre-defined queries
Action == <<"A", "c", "t", "i", "o", "n">>
Adventure == <<"A", "d", "v", "e", "n", "t", "u", "r", "e">>
ScienceFiction == <<"S", "c", "i", "e", "n", "c", "e", " ", "F", "i", "c", "t", "i", "o", "n">>
Comedy == <<"C", "o", "m", "e", "d", "y">>
Fiction == <<"F", "i", "c", "t", "i", "o", "n">>
BruceWillis == <<"B", "r", "u", "c", "e", " ", "W", "i", "l", "l", "i", "s">>
UmaThurman == <<"U", "m", "a", " ", "T", "h", "u", "r", "m", "a", "n">>
KeanuReeves == <<"K", "e", "a", "n", "u", " ", "R", "e", "e", "v", "e", "s">>
willis == <<"w", "i", "l", "l", "i", "s">>
QuentinTarantino == <<"Q", "u", "e", "n", "t", "i", "n", " ", "T", "a", "r", "a", "n", "t", "i", "n", "o">>
tarantino == <<"t", "a", "r", "a", "n", "t", "i", "n", "o">>

\* '|'.join(names) of cleaning/udfs.py
RECURSIVE PipeJoin(_)
PipeJoin(names) ==
    IF Len(names) = 1 THEN names[1]
    ELSE names[1] \o <<"|">> \o PipeJoin(Tail(names))

FilterColumns == <<"title", "genres", "cast", "director", "vote_average",
                   "vote_count", "runtime">>

FilterTypes == [c \in Range(FilterColumns) |->
    CASE c \in {"title", "genres", "cast", "director"} -> "string"
      [] c \in {"vote_count", "runtime"} -> "long"
      [] OTHER -> "double"]

FilterMovie(title, genres, cast, director, va, vc, runtime) ==
    [c \in Range(FilterColumns) |->
        CASE c = "title" -> V(title)
          [] c = "genres" -> genres
          [] c = "cast" -> cast
          [] c = "director" -> director
          [] c = "vote_average" -> va
          [] c = "vote_count" -> vc
          [] c = "runtime" -> runtime]

\* Cleaned movies: pipe-joined genres and cast, a director; one movie with
\* nothing known
FilterCatalogue ==
    <<FilterMovie("M1", V(PipeJoin(<<Action, ScienceFiction>>)),
                  V(PipeJoin(<<BruceWillis, KeanuReeves>>)), V(QuentinTarantino),
                  Num(6), Num(100), Num(150)),
      FilterMovie("M2", V(PipeJoin(<<Action, Adventure>>)),
                  V(UmaThurman), V(QuentinTarantino),
                  Num(8), Num(200), Num(110)),
      FilterMovie("M3", V(Comedy),
                  V(PipeJoin(<<UmaThurman, BruceWillis>>)), V(QuentinTarantino),
                  Num(8), Num(5), Null),
      FilterMovie("M4", Null, Null, Null, Null, Null, Null),
      FilterMovie("M5", V(PipeJoin(<<Action, Adventure, ScienceFiction>>)),
                  V(BruceWillis), V(KeanuReeves),
                  Num(9), Num(50), Num(90))>>

\* The input schemas: all columns, or one of these columns absent
FilterAbsent == {{}, {"cast"}, {"director"}, {"runtime"}}

FilterInputs ==
    {DropCols([columns |-> FilterColumns, types |-> FilterTypes,
               rows |-> Pick(FilterCatalogue, S)], A) :
        S \in {T \in SUBSET (1..Len(FilterCatalogue)) : Cardinality(T) <= MaxMovies},
        A \in FilterAbsent}

GenreArgs == {Str(Action), Str(Fiction), List(<<>>), List(<<Action, ScienceFiction>>),
              List(<<Comedy, Adventure>>)}

ActorNames == {BruceWillis, willis, UmaThurman}

DirectorNames == {QuentinTarantino, tarantino, KeanuReeves}

\* The arguments of search_movies
SearchGenres == {Null, V(List(<<Action, ScienceFiction>>))}
SearchActors == {Null, V(Str(BruceWillis)), V(List(<<willis, UmaThurman>>))}
SearchDirectors == {Null, V(Str(tarantino))}
MinRatings == {Null, V(8)}
MinVotes == {Null, V(10)}
SearchSortBys == {"vote_average", "runtime", "rating"}

\* filter_by_genres(df, genres, match_all)
FilterByGenres ==
    /\ call = NoCall
    /\ \E genres \in GenreArgs, match_all \in BOOLEAN :
          Returns([fn |-> "filter_by_genres", genres |-> genres, match_all |-> match_all],
                  kdf, filter_by_genres(kdf, genres, match_all))

\* filter_by_actor(df, actor_name, case_sensitive)
FilterByActor ==
    /\ call = NoCall
    /\ \E name \in ActorNames, case_sensitive \in BOOLEAN :
          Returns([fn |-> "filter_by_actor", column |-> "cast", name |-> name,
                   case_sensitive |-> case_sensitive],
                  kdf, filter_by_actor(kdf, name, case_sensitive))

\* filter_by_director(df, director_name, case_sensitive)
FilterByDirector ==
    /\ call = NoCall
    /\ \E name \in DirectorNames, case_sensitive \in BOOLEAN :
          Returns([fn |-> "filter_by_director", column |-> "director", name |-> name,
                   case_sensitive |-> case_sensitive],
                  kdf, filter_by_director(kdf, name, case_sensitive))

\* search_movies with the arguments a; display is the list of display columns
\* of a pre-defined query, or null
Search(fn, a, display) ==
    LET c == [fn |-> fn, args |-> a]
    IN  IF SearchRaises(kdf, a) THEN Returns(c, kdf, Fault)
        ELSE \E m \in {search_filtered(kdf, a)} :
             \E o \in SearchOrders(m, a.sort_by, a.ascending) :
             \E r \in {search_limited(m, o, a.top_n)} :
                Returns(c, m, IF IsNull(display) THEN r
                              ELSE select_available(r, Val(display)))

\* search_movies(df, genres, actors, directors, min_rating, min_votes,
\*               sort_by, ascending, top_n)
SearchMovies ==
    /\ call = NoCall
    /\ \E genres \in SearchGenres, actors \in SearchActors, directors \in SearchDirectors,
          min_rating \in MinRatings, min_votes \in MinVotes, sort_by \in SearchSortBys,
          ascending \in BOOLEAN, top_n \in {Null} \cup {V(n) : n \in 1..MaxTopN} :
          Search("search_movies",
                 [genres |-> genres, actors |-> actors, directors |-> directors,
                  min_rating |-> min_rating, min_votes |-> min_votes,
                  sort_by |-> sort_by, ascending |-> ascending, top_n |-> top_n],
                 Null)

\* search_scifi_action_bruce_willis(df)
SearchScifiActionBruceWillis ==
    /\ call = NoCall
    /\ Search("search_scifi_action_bruce_willis",
              [genres |-> V(List(<<ScienceFiction, Action>>)), actors |-> V(Str(BruceWillis)),
               directors |-> Null, min_rating |-> Null, min_votes |-> Null,
               sort_by |-> "vote_average", ascending |-> FALSE, top_n |-> Null],
              V(<<"title", "release_year", "vote_average", "vote_count", "genres",
                  "director", "revenue_musd">>))

\* search_uma_tarantino(df)
SearchUmaTarantino ==
    /\ call = NoCall
    /\ Search("search_uma_tarantino",
              [genres |-> Null, actors |-> V(Str(UmaThurman)),
               directors |-> V(Str(QuentinTarantino)), min_rating |-> Null,
               min_votes |-> Null, sort_by |-> "runtime", ascending |-> TRUE,
               top_n |-> Null],
              V(<<"title", "release_year", "runtime", "vote_average", "genres",
                  "revenue_musd", "budget_musd">>))

FilterInit ==
    /\ kdf \in FilterInputs
    /\ spark = V("session")
    /\ call = NoCall
    /\ df_calc = kdf
    /\ result = EmptyDF
    /\ activeSession = Null
    /\ built = 0
    /\ raw = EmptyDF
    /\ df = EmptyDF
    /\ before = EmptyDF
    /\ dedup = EmptyDF
    /\ pc = "idle"
    /\ run = 0

FilterNext ==
    \/ FilterByGenres
    \/ FilterByActor
    \/ FilterByDirector
    \/ SearchMovies
    \/ SearchScifiActionBruceWillis
    \/ SearchUmaTarantino
    \/ Discard

FilterSpec == FilterInit /\ [][FilterNext]_vars

----------------------------------------------------------------------------
(* clean_datatypes called on raw data, as tests/test_cleaning.py does *)

NumericColumns == <<"id", "title", "budget", "revenue", "runtime">>

NumericTypes == [c \in Range(NumericColumns) |->
    IF c = "title" THEN "string" ELSE "long"]

\* Raw amounts: unknown, zero, one unit, and the amounts of the test
RawBudgets == {Null, V(0), V(1), V(500000)}
RawRevenues == {Null, V(0), V(1000000)}
RawRuntimes == {Null, V(0), V(90)}

NumericRow(b, r, t) ==
    [c \in Range(NumericColumns) |->
        CASE c = "id" -> V(1)
          [] c = "title" -> V("Test Movie")
          [] c = "budget" -> b
          [] c = "revenue" -> r
          [] c = "runtime" -> t]

NumericRows == {NumericRow(b, r, t) : b \in RawBudgets, r \in RawRevenues, t \in RawRuntimes}

\* The input schemas: all columns, or no revenue column
NumericAbsent == {{}, {"revenue"}}

NumericInputs ==
    {DropCols([columns |-> NumericColumns, types |-> NumericTypes, rows |-> rows], A) :
        rows \in UNION {[1..n -> NumericRows] : n \in 0..MaxRows},
        A \in NumericAbsent}

\* cleaner.clean_datatypes(df)
CleanDatatypesCall ==
    /\ pc = "raw"
    /\ df' = clean_datatypes(raw)
    /\ pc' = "typed"
    /\ UNCHANGED <<raw, before, dedup, run>>
    /\ UNCHANGED kpiVars

\* the caller drops the result and may call again
DropTyped ==
    /\ pc = "typed"
    /\ df' = EmptyDF
    /\ pc' = "raw"
    /\ UNCHANGED <<raw, before, dedup, run>>
    /\ UNCHANGED kpiVars

TypesInit ==
    /\ raw \in NumericInputs
    /\ df = EmptyDF
    /\ before = EmptyDF
    /\ dedup = EmptyDF
    /\ pc = "raw"
    /\ run = 0
    /\ kdf = EmptyDF
    /\ spark = Null
    /\ call = NoCall
    /\ df_calc = EmptyDF
    /\ result = EmptyDF
    /\ activeSession = Null
    /\ built = 0

TypesNext ==
    \/ CleanDatatypesCall
    \/ DropTyped

TypesSpec == TypesInit /\ [][TypesNext]_vars

----------------------------------------------------------------------------
(* A raw record with nested fields, credits and free text, as the TMDB API  *)
(* returns it (tests/conftest.py, sample_json_data)                         *)

MaxCast == 6

RecordColumns == <<"id", "title", "status", "tagline", "overview", "genres",
                   "belongs_to_collection", "keywords", "credits", "budget">>

RecordTypes == [c \in Range(RecordColumns) |->
    CASE c \in {"id", "budget"} -> "long"
      [] c = "genres" -> "array"
      [] c \in {"belongs_to_collection", "keywords", "credits"} -> "struct"
      [] OTHER -> "string"]

Named(n) == [name |-> n]

Member(n, job) == [name |-> n, job |-> job]

RecordTitles == {V("Good"), V("No Data"), V("nan")}
RecordTaglines == {Null, V("n/a"), V("nan"), V("Fun")}
RecordOverviews == {V("No Overview"), V("Plot")}

RecordGenres ==
    {Null, V(<<>>), V(<<Named(Null)>>),
     V(<<Named(V("Drama")), Named(V("Action"))>>),
     V(<<Named(V("Drama")), Named(Null), Named(V("Action"))>>)}

RecordCollections ==
    {Null, V(Named(Null)), V(Named(V("Saga"))), V(Named(V("nan"))), V(Named(V("n/a")))}

RecordKeywords ==
    {Null, V([keywords |-> Null]), V([keywords |-> V(<<>>)]),
     V([keywords |-> V(<<Named(V("hero")), Named(Null), Named(V("space"))>>)])}

\* A cast list of n members in billing order, named by their billing rank;
\* member k (if any) has no name
CastList(n, k) == [i \in 1..n |-> Named(IF i = k THEN Null ELSE V(ToString(i)))]

CastLists == {CastList(n, k) : n \in 0..MaxCast, k \in {0, 1}}

CrewLists ==
    {<<>>,
     <<Member(V("Zach Staenberg"), V("Editor"))>>,
     <<Member(V("Lana Wachowski"), V("Director")),
       Member(V("Lilly Wachowski"), V("Director"))>>,
     <<Member(V("Zach Staenberg"), V("Editor")),
       Member(V("Lilly Wachowski"), V("Director")),
       Member(V("Lana Wachowski"), V("Director"))>>,
     <<Member(Null, V("Director")), Member(V("Lilly Wachowski"), V("Director"))>>,
     <<Member(V("Lana Wachowski"), Null)>>}

Credits(cast, crew) == V([cast |-> cast, crew |-> crew])

RecordCredits ==
    {Null, Credits(Null, Null)}
    \cup {Credits(V(c), Null) : c \in CastLists}
    \cup {Credits(Null, V(w)) : w \in CrewLists}
    \cup {Credits(V(CastList(3, 0)), V(w)) : w \in CrewLists}

Record(title, tagline, overview, genres, coll, keywords, credits) ==
    [c \in Range(RecordColumns) |->
        CASE c = "id" -> V(1)
          [] c = "title" -> title
          [] c = "status" -> V("Released")
          [] c = "tagline" -> tagline
          [] c = "overview" -> overview
          [] c = "genres" -> genres
          [] c = "belongs_to_collection" -> coll
          [] c = "keywords" -> keywords
          [] c = "credits" -> credits
          [] c = "budget" -> V(5 * Million)]

\* The text and the nested fields vary together, the credits on their own
Records ==
    {Record(t, g, o, gs, bc, kw, Credits(V(CastList(3, 0)), V(<<>>))) :
        t \in RecordTitles, g \in RecordTaglines, o \in RecordOverviews,
        gs \in RecordGenres, bc \in RecordCollections, kw \in RecordKeywords}
    \cup {Record(V("Good"), Null, V("Plot"), Null, Null, Null, cr) : cr \in RecordCredits}

RecordDF(r) == [columns |-> RecordColumns, types |-> RecordTypes, rows |-> <<r>>]

RecordInit ==
    /\ \E r \in Records : raw = RecordDF(r)
    /\ df = raw
    /\ before = raw
    /\ dedup = raw
    /\ pc = "start"
    /\ run = 1
    /\ kdf = EmptyDF
    /\ spark = Null
    /\ call = NoCall
    /\ df_calc = EmptyDF
    /\ result = EmptyDF
    /\ activeSession = Null
    /\ built = 0

RecordSpec == RecordInit /\ [][Next]_vars

----------------------------------------------------------------------------
(* utils/spark_utils.py: get_spark_session and stop_spark_session.  A      *)
(* configuration key is [prefixed, name]: 'spark.' + name when prefixed.  *)

MaxSessions == 2

Key(prefixed, name) == [prefixed |-> prefixed, name |-> name]

\* lines 65-68: the key gets the prefix 'spark.' unless it starts with it
config_key(key) == Key(TRUE, key.name)

\* dict.update: the value of a key of d is replaced in place, a new key is
\* appended; d and o are sequences of <<key, value>> in insertion order
RECURSIVE update(_, _)
update(d, o) ==
    IF o = <<>> THEN d
    ELSE LET kv == Head(o)
             at == {i \in 1..Len(d) : d[i][1] = kv[1]}
             e  == IF at = {} THEN Append(d, kv)
                   ELSE [i \in 1..Len(d) |-> IF i \in at THEN kv ELSE d[i]]
         IN  update(e, Tail(o))

\* lines 63-70: builder.config(config_key, value) for every item in order;
\* the value set last under a key stays
builder_conf(items) ==
    LET keys == {config_key(items[i][1]) : i \in 1..Len(items)}
    IN  [k \in keys |->
            LET last == CHOOSE i \in 1..Len(items) :
                            /\ config_key(items[i][1]) = k
                            /\ \A j \in (i + 1)..Len(items) : config_key(items[j][1]) # k
            IN  items[last][2]]

\* lines 44-54: the configuration to apply; loading the file may raise, and
\* then the default (empty) configuration is used
spark_config(loaded, config_overrides) ==
    LET base == IF IsNull(loaded) THEN <<>> ELSE Val(loaded)
    IN  IF IsNull(config_overrides) \/ config_overrides = V(<<>>) THEN base
        ELSE update(base, Val(config_overrides))

\* lines 57-74: the session the builder creates
new_session(n, app_name, loaded, config_overrides) ==
    [id |-> n, appName |-> app_name,
     conf |-> builder_conf(spark_config(loaded, config_overrides))]

\* Mutation of session_for: a session is built on every call
session_for_AlwaysNew(existing_session, fresh) == V(fresh)

\* lines 38-41 and 74-80: the existing session when there is one
session_for(existing_session, fresh) ==
    IF NotNull(existing_session) THEN existing_session ELSE V(fresh)

AppNames == {"TMDB_Analysis", "TestApp"}

\* The default path, a file without a 'spark' section and a path that cannot
\* be read
ConfigPaths == {"config/config.yaml", "config/empty.yaml", "config/missing.yaml"}

\* What load_config(config_path) gives at line 45-46: the 'spark' section of
\* the file, or nothing (null) when it raises
LoadedFrom(config_path) ==
    CASE config_path = "config/config.yaml" ->
            V(<< <<Key(FALSE, "driver.memory"), "2g">> >>)
      [] config_path = "config/empty.yaml" -> V(<<>>)
      [] OTHER -> Null

OverrideArgs ==
    {Null,
     V(<<>>),
     V(<< <<Key(TRUE, "driver.memory"), "4g">> >>)}

\* get_spark_session(app_name, config_path, config_overrides)
GetSparkSession ==
    \E app_name \in AppNames, config_path \in ConfigPaths, config_overrides \in OverrideArgs :
        LET fresh == new_session(built + 1, app_name, LoadedFrom(config_path),
                                 config_overrides)
            s == session_for(activeSession, fresh)
        IN  /\ s = V(fresh) => built < MaxSessions
            /\ activeSession' = s
            /\ built' = IF s = V(fresh) THEN built + 1 ELSE built
            /\ result' = s
            /\ call' = [fn |-> "get_spark_session", app_name |-> app_name,
                        config_path |-> config_path,
                        config_overrides |-> config_overrides]
            /\ UNCHANGED <<kdf, spark, df_calc>>
            /\ UNCHANGED cleanVars

\* stop_spark_session()
StopSparkSession ==
    /\ activeSession' = Null
    /\ result' = Null
    /\ call' = [fn |-> "stop_spark_session"]
    /\ UNCHANGED <<built, kdf, spark, df_calc>>
    /\ UNCHANGED cleanVars

SessionInit ==
    /\ activeSession = Null
    /\ built = 0
    /\ call = NoCall
    /\ result = Null
    /\ kdf = EmptyDF
    /\ spark = Null
    /\ df_calc = EmptyDF
    /\ raw = EmptyDF
    /\ df = EmptyDF
    /\ before = EmptyDF
    /\ dedup = EmptyDF
    /\ pc = "idle"
    /\ run = 0

SessionNext ==
    \/ GetSparkSession
    \/ StopSparkSession

SessionSpec == SessionInit /\ [][SessionNext]_vars

----------------------------------------------------------------------------
(* Claims about the cleaning pipeline *)

AfterFilter == {"filtered", "engineered", "sorted", "done"}

Ids(d) == {d.rows[i]["id"] : i \in 1..NRows(d)}

\* C1: after filter_data, and in what clean_all returns, no record has a null
\* id and no two records share an id.
C1_IdsUniqueAndNonNull ==
    pc \in AfterFilter =>
        \A i, j \in 1..NRows(df) :
            /\ NotNull(df.rows[i]["id"])
            /\ (i # j => df.rows[i]["id"] # df.rows[j]["id"])

\* clean_all returned one record for an input of two records with the same id
C1_Witness ==
    /\ pc = "done"
    /\ run = 1
    /\ NRows(raw) = 2
    /\ NotNull(raw.rows[1]["id"])
    /\ raw.rows[1]["id"] = raw.rows[2]["id"]
    /\ NRows(df) = 1

\* C2: every record clean_all returns has a non-null title.
C2_TitleNeverNull ==
    pc = "done" => \A i \in 1..NRows(df) : NotNull(df.rows[i]["title"])

\* the first row of d with the id of r
FirstWithId(d, r) ==
    d.rows[CHOOSE i \in 1..NRows(d) :
              /\ d.rows[i]["id"] = r["id"]
              /\ \A j \in 1..(i - 1) : d.rows[j]["id"] # r["id"]]

\* C3 as stated: the record deduplication keeps for an id is the first record
\* of the input with that id.
C3_FirstOccurrenceWins ==
    pc = "filtered" =>
        \A k \in 1..NRows(dedup) : dedup.rows[k] = FirstWithId(before, dedup.rows[k])

\* C3 as amended: deduplication keeps exactly one record of every id of its
\* input, and the record kept is one of the input records with that id.
C3_ExactlyOneSurvivorPerId ==
    pc = "filtered" =>
        /\ \A i \in 1..NRows(before) :
              Cardinality({k \in 1..NRows(dedup) :
                              dedup.rows[k]["id"] = before.rows[i]["id"]}) = 1
        /\ \A k \in 1..NRows(dedup) : dedup.rows[k] \in Range(before.rows)

\* two records share an id and the one kept is the second of them
C3_Witness ==
    /\ pc = "filtered"
    /\ NRows(before) = 2
    /\ before.rows[1]["id"] = before.rows[2]["id"]
    /\ before.rows[1] # before.rows[2]
    /\ NRows(dedup) = 1
    /\ dedup.rows[1] = before.rows[2]

\* C4 as stated: a record survives filter_data only if its status was
\* Released, and the output has no status column.
C4_OnlyReleasedSurvive ==
    pc \in AfterFilter =>
        /\ ~HasCol(df, "status")
        /\ \A i \in 1..NRows(df) :
              /\ HasCol(dedup, "status")
              /\ \E k \in 1..NRows(dedup) :
                    /\ dedup.rows[k]["id"] = df.rows[i]["id"]
                    /\ dedup.rows[k]["status"] = V("Released")

\* C4 as amended: the output has no status column, and when the input of
\* filter_data has a status column a record survives only if its status was
\* Released; with no status column in the input no status filter is applied.
C4_OnlyReleasedSurviveIfStatusColumn ==
    pc \in AfterFilter =>
        /\ ~HasCol(df, "status")
        /\ HasCol(dedup, "status") =>
              \A i \in 1..NRows(df) :
                 \E k \in 1..NRows(dedup) :
                    /\ dedup.rows[k]["id"] = df.rows[i]["id"]
                    /\ dedup.rows[k]["status"] = V("Released")
        /\ ~HasCol(dedup, "status") =>
              \A k \in 1..NRows(dedup) :
                 HasIdAndTitle(dedup.rows[k]) =>
                    \E i \in 1..NRows(df) : df.rows[i]["id"] = dedup.rows[k]["id"]

\* of a Released and a Rumored record, both with id and title, only the
\* Released one is returned
C4_Witness ==
    /\ pc = "done"
    /\ run = 1
    /\ NRows(raw) = 2
    /\ HasIdAndTitle(raw.rows[1])
    /\ HasIdAndTitle(raw.rows[2])
    /\ raw.rows[1]["id"] # raw.rows[2]["id"]
    /\ raw.rows[1]["status"] = V("Rumored")
    /\ raw.rows[2]["status"] = V("Released")
    /\ NRows(df) = 1
    /\ df.rows[1]["id"] = raw.rows[2]["id"]

\* C5: clean_all run on what clean_all returned completes and returns the same
\* columns and the same rows.
C5_CleanAllIdempotent ==
    run >= 2 =>
        /\ pc # "fault"
        /\ pc = "done" => df.columns = raw.columns /\ SameRows(df, raw)

----------------------------------------------------------------------------
(* Claims about the ranking engine *)

IsRankCall == call # NoCall /\ call.fn # "compare_franchise_vs_standalone"

Returned == call # NoCall /\ ~IsFault(result)

PositiveBudget(r) == NotNull(r["budget_musd"]) /\ Val(r["budget_musd"]).num > 0

\* roi * budget = (revenue - budget) * 100
RoiIsFormula(r) ==
    REq(RMul(Val(r["roi"]), Val(r["budget_musd"])),
        RMul(RSub(Val(r["revenue_musd"]), Val(r["budget_musd"])), RInt(100)))

\* C6 as stated: the roi computed on demand is non-null exactly for the records
\* with budget_musd > 0, and then equals (revenue - budget) / budget * 100.
C6_RoiIffPositiveBudget ==
    (call # NoCall /\ HasCol(df_calc, "roi")) =>
        \A i \in 1..NRows(df_calc) :
            LET r == df_calc.rows[i]
            IN  /\ NotNull(r["roi"]) <=> PositiveBudget(r)
                /\ NotNull(r["roi"]) => RoiIsFormula(r)

\* C6 as amended: the roi computed on demand is non-null exactly for the
\* records with budget_musd > 0 and a non-null revenue_musd, and then equals
\* (revenue - budget) / budget * 100.
C6_RoiIffPositiveBudgetAndRevenue ==
    (call # NoCall /\ HasCol(df_calc, "roi")) =>
        \A i \in 1..NRows(df_calc) :
            LET r == df_calc.rows[i]
            IN  /\ NotNull(r["roi"]) <=> (PositiveBudget(r) /\ NotNull(r["revenue_musd"]))
                /\ NotNull(r["roi"]) => RoiIsFormula(r)

\* rank_movies computed roi for a record with a budget and no revenue, for a
\* record with a zero budget and for a record with both
C6_Witness ==
    /\ IsRankCall
    /\ HasCol(df_calc, "roi")
    /\ \E i, j, k \in 1..NRows(df_calc) :
          /\ PositiveBudget(df_calc.rows[i]) /\ IsNull(df_calc.rows[i]["revenue_musd"])
          /\ IsNull(df_calc.rows[i]["roi"])
          /\ df_calc.rows[j]["budget_musd"] = Num(0) /\ IsNull(df_calc.rows[j]["roi"])
          /\ NotNull(df_calc.rows[k]["roi"])

\* The rows of df_calc that pass the call's filter and have a metric
QualifyingRows ==
    {i \in 1..NRows(df_calc) :
        /\ HasCol(df_calc, call.metric)
        /\ NotNull(df_calc.rows[i][call.metric])
        /\ call.filter = "budget_floor" =>
              /\ NotNull(df_calc.rows[i]["budget_musd"])
              /\ Val(df_calc.rows[i]["budget_musd"]).num
                    >= 10 * Val(df_calc.rows[i]["budget_musd"]).den
        /\ call.filter = "votes_floor" =>
              /\ NotNull(df_calc.rows[i]["vote_count"])
              /\ Val(df_calc.rows[i]["vote_count"]).num
                    >= 10 * Val(df_calc.rows[i]["vote_count"]).den}

RanksInOrder == \A k \in 1..NRows(result) : result.rows[k]["rank"] = V(k)

\* C7 as stated: the ranks of a rank_movies result for top_n = k are 1..k.
C7_RanksAreOneToTopN ==
    (IsRankCall /\ Returned) => NRows(result) = call.top_n /\ RanksInOrder

\* C7 as amended: the ranks are 1..m, where m is the smaller of k and the
\* number of records that satisfy the predicate and have a non-null metric.
C7_RanksAreOneToReturned ==
    (IsRankCall /\ Returned) =>
        /\ NRows(result) = Min(call.top_n, Cardinality(QualifyingRows))
        /\ RanksInOrder

\* three records qualify and top_n = 2: the ranks are 1, 2
C7_Witness ==
    /\ IsRankCall
    /\ Returned
    /\ call.top_n = 2
    /\ Cardinality(QualifyingRows) = 3
    /\ NRows(result) = 2
    /\ result.rows[2]["rank"] = V(2)

\* The row of df_calc a result row was made from (titles are unique)
SourceOf(k) ==
    CHOOSE i \in 1..NRows(df_calc) : df_calc.rows[i]["title"] = result.rows[k]["title"]

MetricAt(i) == Val(df_calc.rows[i][call.metric])

\* a is strictly better than b in the call's direction
Better(a, b) == IF call.ascending THEN RLt(a, b) ELSE RLt(b, a)

ReturnedRows == {SourceOf(k) : k \in 1..NRows(result)}

\* C8: rank_movies returns the first top_n records of the qualifying records
\* sorted by the metric: the result holds min(top_n, qualifying) distinct
\* qualifying records, none with a null metric, the rank is the position, the
\* metric never gets better along the ranks, and no qualifying record left out
\* is strictly better than a returned one.
C8_TopNOfSortedQualifying ==
    (IsRankCall /\ Returned /\ HasCol(df_calc, call.metric)) =>
        /\ NRows(result) = Min(call.top_n, Cardinality(QualifyingRows))
        /\ \A k \in 1..NRows(result) :
              \E i \in QualifyingRows : df_calc.rows[i]["title"] = result.rows[k]["title"]
        /\ Cardinality(ReturnedRows) = NRows(result)
        /\ RanksInOrder
        /\ \A k, l \in 1..NRows(result) :
              k < l => ~Better(MetricAt(SourceOf(l)), MetricAt(SourceOf(k)))
        /\ \A i \in QualifyingRows \ ReturnedRows :
              \A k \in 1..NRows(result) : ~Better(MetricAt(i), MetricAt(SourceOf(k)))

\* an ascending call with a predicate and top_n = 1 on three records: one is
\* excluded, two qualify, and the one left out is strictly worse than the one
\* returned
C8_Witness ==
    /\ IsRankCall
    /\ Returned
    /\ HasCol(df_calc, call.metric)
    /\ call.filter # "none"
    /\ call.ascending
    /\ call.top_n = 1
    /\ NRows(result) = 1
    /\ Cardinality(QualifyingRows) = 2
    /\ Cardinality(QualifyingRows) < NRows(df_calc)
    /\ \E i \in QualifyingRows \ ReturnedRows :
          Better(MetricAt(SourceOf(1)), MetricAt(i))

\* C9: rank_movies with a metric that is no column and cannot be derived
\* returns an empty result and raises nothing.
C9_UnknownMetricGivesEmpty ==
    (IsRankCall /\ ~HasCol(df_calc, call.metric)) =>
        /\ ~IsFault(result)
        /\ NRows(result) = 0

RoiWrappers == {"get_top_by_roi", "get_bottom_by_roi"}
RatedWrappers == {"get_top_rated", "get_bottom_rated"}

AtLeastTen(v) == NotNull(v) /\ Val(v).num >= 10 * Val(v).den

Titles(d) == [k \in 1..NRows(d) |-> Val(d.rows[k]["title"])]

\* C10: every record get_top_by_roi / get_bottom_by_roi return has
\* budget_musd >= 10 and every record get_top_rated / get_bottom_rated return
\* has vote_count >= 10; no record under the floor is returned whatever its
\* metric; the records returned are in metric order; for High Rev, Low Rev
\* and Flop get_top_by_roi returns High Rev, Flop.
C10_FloorBeforeRanking ==
    (call # NoCall /\ call.fn \in RoiWrappers \cup RatedWrappers /\ Returned
        /\ HasCol(df_calc, call.metric)) =>
        LET col == IF call.fn \in RoiWrappers THEN "budget_musd" ELSE "vote_count"
        IN  /\ \A k \in 1..NRows(result) : AtLeastTen(result.rows[k][col])
            /\ \A i \in 1..NRows(df_calc) :
                  ~AtLeastTen(df_calc.rows[i][col]) => i \notin ReturnedRows
            /\ \A k, l \in 1..NRows(result) :
                  k < l => ~Better(Val(result.rows[l][call.metric]),
                                   Val(result.rows[k][call.metric]))
            /\ (/\ call.fn = "get_top_by_roi"
                /\ call.top_n >= 2
                /\ Titles(kdf) = <<"High Rev", "Low Rev", "Flop">>)
               => Titles(result) = <<"High Rev", "Flop">>

\* get_top_by_roi left out a record under the budget floor whose roi is
\* higher than the roi of every record it returned
C10_Witness ==
    /\ call # NoCall
    /\ call.fn = "get_top_by_roi"
    /\ Returned
    /\ HasCol(df_calc, "roi")
    /\ NRows(result) = 2
    /\ \E i \in 1..NRows(df_calc) :
          /\ NotNull(df_calc.rows[i]["roi"])
          /\ ~AtLeastTen(df_calc.rows[i]["budget_musd"])
          /\ \A k \in 1..NRows(result) :
                RLt(Val(result.rows[k]["roi"]), Val(df_calc.rows[i]["roi"]))

----------------------------------------------------------------------------
(* Claims about the franchise / standalone comparison *)

IsCompareCall == call # NoCall /\ call.fn = "compare_franchise_vs_standalone"

\* C11: compare_franchise_vs_standalone returns exactly two rows, the row
\* labelled "Franchise" first and the row labelled "Standalone" second, for
\* every input.
C11_TwoRowsFranchiseFirst ==
    (IsCompareCall /\ Returned) =>
        /\ NRows(result) = 2
        /\ result.rows[1]["is_franchise"] = V("Franchise")
        /\ result.rows[2]["is_franchise"] = V("Standalone")

\* The input rows a label stands for
Labelled(label) ==
    {i \in 1..NRows(kdf) : NotNull(kdf.rows[i]["collection_name"]) <=> label = "Franchise"}

RECURSIVE SumOfCounts(_, _)
SumOfCounts(d, i) ==
    IF i > NRows(d) THEN 0 ELSE Val(d.rows[i]["movie_count"]) + SumOfCounts(d, i + 1)

\* C12: every input row is labelled "Franchise" exactly when its
\* collection_name is non-null and "Standalone" otherwise; the movie_count of
\* each output row is the number of input rows with that label, no label
\* appears twice, and the counts add up to the number of input rows.
C12_LabelsAndCounts ==
    (IsCompareCall /\ Returned) =>
        /\ NRows(df_calc) = NRows(kdf)
        /\ \A i \in 1..NRows(df_calc) :
              /\ df_calc.rows[i]["collection_name"] = kdf.rows[i]["collection_name"]
              /\ df_calc.rows[i]["is_franchise"] \in {V("Franchise"), V("Standalone")}
              /\ df_calc.rows[i]["is_franchise"] = V("Franchise")
                    <=> NotNull(kdf.rows[i]["collection_name"])
        /\ \A k \in 1..NRows(result) :
              \E label \in {"Franchise", "Standalone"} :
                  /\ result.rows[k]["is_franchise"] = V(label)
                  /\ result.rows[k]["movie_count"] = V(Cardinality(Labelled(label)))
        /\ \A k, l \in 1..NRows(result) :
              k # l => result.rows[k]["is_franchise"] # result.rows[l]["is_franchise"]
        /\ SumOfCounts(result, 1) = NRows(kdf)

\* a comparison of two franchise movies with one standalone movie
C12_Witness ==
    /\ IsCompareCall
    /\ Returned
    /\ NRows(kdf) = 3
    /\ \E k, l \in 1..NRows(result) :
          /\ result.rows[k]["is_franchise"] = V("Franchise")
          /\ result.rows[k]["movie_count"] = V(2)
          /\ result.rows[l]["is_franchise"] = V("Standalone")
          /\ result.rows[l]["movie_count"] = V(1)

----------------------------------------------------------------------------
(* Claims about the grouped aggregations *)

IsGroupCall == call # NoCall /\ call.fn \in {"get_top_franchises", "get_top_directors"}

\* The input rows of the group with key value g
Members(g) == {i \in 1..NRows(kdf) : kdf.rows[i][call.key] = g}

\* The sum of the revenue_musd of the rows S of the input, a missing revenue
\* adding nothing
RECURSIVE RevenueSum(_)
RevenueSum(S) ==
    IF S = {} THEN RInt(0)
    ELSE LET i == CHOOSE x \in S : TRUE
             v == kdf.rows[i]["revenue_musd"]
         IN  RAdd(IF IsNull(v) THEN RInt(0) ELSE Val(v), RevenueSum(S \ {i}))

\* row r of a statistics DataFrame describes the members of its key
DescribesItsGroup(r) ==
    /\ NotNull(r[call.key])
    /\ Members(r[call.key]) # {}
    /\ r["movie_count"] = V(Cardinality(Members(r[call.key])))
    /\ NotNull(r["total_revenue_musd"])
          <=> \E i \in Members(r[call.key]) : NotNull(kdf.rows[i]["revenue_musd"])
    /\ NotNull(r["total_revenue_musd"])
          => REq(Val(r["total_revenue_musd"]), RevenueSum(Members(r[call.key])))

\* C13: get_top_franchises and get_top_directors group only the records with
\* a non-null key (collection_name, director), one group per key value; for
\* each group and each returned row movie_count is the number of member
\* records and total_revenue_musd is the sum of the members' revenue_musd.
C13_GroupCountsAndTotals ==
    (IsGroupCall /\ Returned) =>
        /\ \A i \in 1..NRows(df_calc) : DescribesItsGroup(df_calc.rows[i])
        /\ \A i, j \in 1..NRows(df_calc) :
              i # j => df_calc.rows[i][call.key] # df_calc.rows[j][call.key]
        /\ \A i \in 1..NRows(kdf) :
              NotNull(kdf.rows[i][call.key]) =>
                  \E j \in 1..NRows(df_calc) : df_calc.rows[j][call.key] = kdf.rows[i][call.key]
        /\ \A k \in 1..NRows(result) : DescribesItsGroup(result.rows[k])

\* get_top_franchises on data with a standalone movie and the two members of
\* Franchise A, revenue 100 and 150: movie_count 2 and total 250
C13_Witness ==
    /\ IsGroupCall
    /\ call.fn = "get_top_franchises"
    /\ Returned
    /\ \E i \in 1..NRows(kdf) : IsNull(kdf.rows[i]["collection_name"])
    /\ \E k \in 1..NRows(result) :
          /\ result.rows[k]["collection_name"] = V("Franchise A")
          /\ result.rows[k]["movie_count"] = V(2)
          /\ REq(Val(result.rows[k]["total_revenue_musd"]), RInt(250))

\* The row of the statistics a result row was made from (keys are unique)
GroupOf(k) ==
    CHOOSE i \in 1..NRows(df_calc) : df_calc.rows[i][call.key] = result.rows[k][call.key]

ReturnedGroups == {GroupOf(k) : k \in 1..NRows(result)}

GroupMetric(i) == SortKey(df_calc.rows[i], call.sort_by)

\* The result is the first top_n of the groups Q in descending metric order,
\* ranked 1..k by position
TopOfGroups(Q) ==
    /\ NRows(result) = Min(call.top_n, Cardinality(Q))
    /\ \A k \in 1..NRows(result) :
          /\ \E i \in Q : df_calc.rows[i][call.key] = result.rows[k][call.key]
          /\ \A c \in ColSet(df_calc) : result.rows[k][c] = df_calc.rows[GroupOf(k)][c]
          /\ result.rows[k]["rank"] = V(k)
    /\ Cardinality(ReturnedGroups) = NRows(result)
    /\ \A k, l \in 1..NRows(result) :
          k < l => DescMayPrecede(GroupMetric(GroupOf(k)), GroupMetric(GroupOf(l)))
    /\ \A i \in Q \ ReturnedGroups :
          \A k \in 1..NRows(result) :
              DescMayPrecede(GroupMetric(GroupOf(k)), GroupMetric(i))

MeetingThreshold ==
    {i \in 1..NRows(df_calc) : Val(df_calc.rows[i]["movie_count"]) >= call.min_movies}

\* C15: get_top_directors applies min_movies to the group's movie count
\* before sorting and truncation: every returned director has movie_count >=
\* min_movies, and the result is the first top_n of the directors that meet
\* the threshold, so a director below it takes no place from one that meets it.
C15_MinMoviesBeforeTruncation ==
    (IsGroupCall /\ call.fn = "get_top_directors" /\ Returned) =>
        /\ \A k \in 1..NRows(result) :
              Val(result.rows[k]["movie_count"]) >= call.min_movies
        /\ TopOfGroups(MeetingThreshold)

\* min_movies = 2 and top_n = 1: the director returned has two movies, and a
\* director with one movie and a strictly larger metric is left out
C15_Witness ==
    /\ IsGroupCall
    /\ call.fn = "get_top_directors"
    /\ Returned
    /\ call.min_movies = 2
    /\ call.top_n = 1
    /\ NRows(result) = 1
    /\ result.rows[1]["movie_count"] = V(2)
    /\ \E i \in 1..NRows(df_calc) :
          /\ df_calc.rows[i]["movie_count"] = V(1)
          /\ ~DescMayPrecede(GroupMetric(GroupOf(1)), GroupMetric(i))

----------------------------------------------------------------------------
(* Claims about the filters *)

\* The rows of the input at the indices S, in input order, are what came back
ReturnsExactly(d, S) ==
    /\ d.columns = kdf.columns
    /\ d.rows = Pick(kdf.rows, S)

\* The tokens a genres argument stands for: a single string is one token
TokensOf(arg) == IF arg.kind = "str" THEN <<arg.val>> ELSE arg.val

HasToken(r, t) == NotNull(r["genres"]) /\ IsSubstring(t, Val(r["genres"]))

\* C16: filter_by_genres with match_all=True returns exactly the records
\* whose genre string contains every given token as a substring, with
\* match_all=False exactly those whose genre string contains at least one;
\* a single string argument counts as a one-token list.
C16_GenresAllOrAny ==
    (call # NoCall /\ call.fn = "filter_by_genres") =>
        /\ Returned
        /\ LET tokens == TokensOf(call.genres)
           IN  ReturnsExactly(result,
                   {i \in 1..NRows(kdf) :
                       IF call.match_all
                       THEN \A k \in 1..Len(tokens) : HasToken(kdf.rows[i], tokens[k])
                       ELSE \E k \in 1..Len(tokens) : HasToken(kdf.rows[i], tokens[k])})

\* filter_by_genres with the single string "Fiction" and match_all=True keeps
\* a movie with "Science Fiction" among its genres and drops another movie
C16_Witness ==
    /\ call # NoCall
    /\ call.fn = "filter_by_genres"
    /\ call.genres = Str(Fiction)
    /\ call.match_all
    /\ Returned
    /\ NRows(result) >= 1
    /\ NRows(result) < NRows(kdf)
    /\ \E i \in 1..NRows(kdf) :
          NotNull(kdf.rows[i]["genres"]) /\ ~HasToken(kdf.rows[i], Fiction)

\* two characters that differ at most in case
SameLetter(a, b) ==
    a = b \/ \E i \in 1..Len(UpperCase) : {a, b} = {UpperCase[i], LowerCase[i]}

\* t occurs in str when the case of the letters is ignored
ContainsIgnoringCase(t, str) ==
    \E i \in 0..(Len(str) - Len(t)) :
        \A k \in 1..Len(t) : SameLetter(str[i + k], t[k])

\* the cell is a string that contains one of the names, ignoring case
HasOneOf(v, names) ==
    NotNull(v) /\ \E k \in 1..Len(names) : ContainsIgnoringCase(names[k], Val(v))

\* C17: filter_by_actor without a cast column and filter_by_director without
\* a director column return an empty result and do not raise; with the column
\* they return exactly the records whose non-null cast / director contains the
\* name as a substring, ignoring case unless case_sensitive is set.
C17_NameFilters ==
    (call # NoCall /\ call.fn \in {"filter_by_actor", "filter_by_director"}) =>
        /\ Returned
        /\ ~HasCol(kdf, call.column) => ReturnsExactly(result, {})
        /\ HasCol(kdf, call.column) =>
              ReturnsExactly(result,
                  {i \in 1..NRows(kdf) :
                      LET v == kdf.rows[i][call.column]
                      IN  /\ NotNull(v)
                          /\ IF call.case_sensitive THEN IsSubstring(call.name, Val(v))
                             ELSE ContainsIgnoringCase(call.name, Val(v))})

\* filter_by_actor "willis" without case_sensitive keeps a movie with Bruce
\* Willis and drops a movie with another cast
C17_Witness ==
    /\ call # NoCall
    /\ call.fn = "filter_by_actor"
    /\ call.name = willis
    /\ ~call.case_sensitive
    /\ Returned
    /\ HasCol(kdf, "cast")
    /\ NRows(result) >= 1
    /\ \E i \in 1..NRows(kdf) : kdf.rows[i]["cast"] = V(UmaThurman)
    /\ \A k \in 1..NRows(result) : ~IsSubstring(willis, Val(result.rows[k]["cast"]))

IsSearchCall ==
    /\ call # NoCall
    /\ call.fn \in {"search_movies", "search_scifi_action_bruce_willis",
                    "search_uma_tarantino"}

AtLeast(v, n) == NotNull(v) /\ Val(v).num >= n * Val(v).den

\* The input rows that meet every criterion the call supplies
Matching ==
    {i \in 1..NRows(kdf) :
        LET r == kdf.rows[i]
            a == call.args
        IN  /\ NotNull(a.genres) =>
                  \A k \in 1..Len(TokensOf(Val(a.genres))) :
                      HasToken(r, TokensOf(Val(a.genres))[k])
            /\ NotNull(a.actors) => HasOneOf(r["cast"], TokensOf(Val(a.actors)))
            /\ NotNull(a.directors) => HasOneOf(r["director"], TokensOf(Val(a.directors)))
            /\ NotNull(a.min_rating) => AtLeast(r["vote_average"], Val(a.min_rating))
            /\ NotNull(a.min_votes) => AtLeast(r["vote_count"], Val(a.min_votes))}

\* C18: search_movies finds exactly the input records that satisfy every
\* supplied criterion at once (all genre tokens present, one of the actors in
\* cast, one of the directors in director, vote_average >= min_rating,
\* vote_count >= min_votes; names compared ignoring case); an omitted
\* criterion excludes nothing.  The matching records are all returned when
\* top_n is omitted, and every returned record is a matching one.
C18_SearchIsConjunction ==
    (IsSearchCall /\ Returned) =>
        /\ ReturnsExactly(df_calc, Matching)
        /\ \A k \in 1..NRows(result) :
              \E i \in Matching : kdf.rows[i]["title"] = result.rows[k]["title"]
        /\ call.fn = "search_movies" =>
              /\ \A k \in 1..NRows(result) : result.rows[k] \in Range(df_calc.rows)
              /\ IsNull(call.args.top_n) => SameRows(result, df_calc)

\* a search with genres, actors and directors on three records: one meets
\* all three, one misses only a genre and one has only another director
C18_Witness ==
    /\ IsSearchCall
    /\ call.fn = "search_movies"
    /\ Returned
    /\ NotNull(call.args.genres)
    /\ call.args.actors = V(List(<<willis, UmaThurman>>))
    /\ call.args.directors = V(Str(tarantino))
    /\ IsNull(call.args.top_n)
    /\ NRows(kdf) = 3
    /\ NRows(result) = 1
    /\ \E i \in 1..NRows(kdf) :
          /\ ~HasToken(kdf.rows[i], ScienceFiction)
          /\ HasOneOf(kdf.rows[i]["cast"], <<willis, UmaThurman>>)
          /\ HasOneOf(kdf.rows[i]["director"], <<tarantino>>)
    /\ \E i \in 1..NRows(kdf) :
          /\ HasToken(kdf.rows[i], ScienceFiction)
          /\ HasToken(kdf.rows[i], Action)
          /\ HasOneOf(kdf.rows[i]["cast"], <<willis, UmaThurman>>)
          /\ ~HasOneOf(kdf.rows[i]["director"], <<tarantino>>)

\* The row of the matching records a result row is (titles are unique)
MatchOf(k) ==
    CHOOSE i \in 1..NRows(df_calc) : df_calc.rows[i]["title"] = result.rows[k]["title"]

ReturnedMatches == {MatchOf(k) : k \in 1..NRows(result)}

\* In the call's direction cell a does not have to come after cell b: nulls
\* sort first ascending and last descending
NotAfter(a, b) ==
    IF call.args.ascending
    THEN IsNull(a) \/ (NotNull(b) /\ Val(a).num * Val(b).den <= Val(b).num * Val(a).den)
    ELSE IsNull(b) \/ (NotNull(a) /\ Val(b).num * Val(a).den <= Val(a).num * Val(b).den)

SortCell(i) == df_calc.rows[i][call.args.sort_by]

\* C19: search_movies sorts the matching records by sort_by in the requested
\* direction and then keeps at most top_n of them; when sort_by is no column
\* the call does not fail for it, the matching records keep their order and
\* the truncation still applies.
C19_SortThenTruncate ==
    (call # NoCall /\ call.fn = "search_movies") =>
        /\ Returned <=> search_reads(call.args) \subseteq ColSet(kdf)
        /\ Returned =>
              LET n == NRows(df_calc)
                  k == IF IsNull(call.args.top_n) THEN n ELSE Min(Val(call.args.top_n), n)
              IN  /\ NRows(result) = k
                  /\ result.columns = df_calc.columns
                  /\ \A j \in 1..k : result.rows[j] \in Range(df_calc.rows)
                  /\ Cardinality(ReturnedMatches) = k
                  /\ HasCol(df_calc, call.args.sort_by) =>
                        /\ \A i, j \in 1..k :
                              i < j => NotAfter(SortCell(MatchOf(i)), SortCell(MatchOf(j)))
                        /\ \A i \in (1..n) \ ReturnedMatches :
                              \A j \in 1..k : NotAfter(SortCell(MatchOf(j)), SortCell(i))
                  /\ ~HasCol(df_calc, call.args.sort_by) =>
                        result.rows = SubSeq(df_calc.rows, 1, k)

\* a search sorted by 'rating', which is no column, with top_n = 1 and three
\* matching records: the first matching record comes back, although another
\* one is rated higher
C19_Witness ==
    /\ call # NoCall
    /\ call.fn = "search_movies"
    /\ Returned
    /\ call.args.sort_by = "rating"
    /\ ~HasCol(kdf, "rating")
    /\ call.args.top_n = V(1)
    /\ NRows(df_calc) = 3
    /\ NRows(result) = 1
    /\ result.rows[1] = df_calc.rows[1]
    /\ \E i \in 2..3 :
          /\ NotNull(df_calc.rows[i]["vote_average"])
          /\ NotNull(df_calc.rows[1]["vote_average"])
          /\ RLt(Val(df_calc.rows[1]["vote_average"]), Val(df_calc.rows[i]["vote_average"]))

----------------------------------------------------------------------------
(* Claims about clean_datatypes *)

\* musd = rawv / 1000000, for a fraction whose denominator is a multiple of
\* one million (the products of the cross-multiplication exceed 32 bits)
IsMusdOf(musd, rawv) ==
    /\ Val(musd).den > 0
    /\ Val(musd).den % Million = 0
    /\ Val(musd).num = Val(rawv) * (Val(musd).den \div Million)

\* C20: after clean_datatypes a raw budget, revenue or runtime of exactly
\* zero is null and any other value is kept; budget_musd and revenue_musd are
\* the raw value divided by one million, null exactly when the raw value was
\* null or zero, and never zero.
C20_ZeroIsNullAndMusd ==
    pc = "typed" =>
        /\ NRows(df) = NRows(raw)
        /\ \A i \in 1..NRows(raw) :
              /\ \A c \in {"budget", "revenue", "runtime"} \cap ColSet(raw) :
                    /\ HasCol(df, c)
                    /\ df.rows[i][c] =
                          IF raw.rows[i][c] = V(0) THEN Null ELSE raw.rows[i][c]
              /\ \A c \in {"budget", "revenue"} \cap ColSet(raw) :
                    LET m == IF c = "budget" THEN "budget_musd" ELSE "revenue_musd"
                    IN  /\ HasCol(df, m)
                        /\ IsNull(df.rows[i][m]) <=> raw.rows[i][c] \in {Null, V(0)}
                        /\ NotNull(df.rows[i][m]) =>
                              /\ IsMusdOf(df.rows[i][m], raw.rows[i][c])
                              /\ Val(df.rows[i][m]).num # 0

\* clean_datatypes on a row with budget 500000 and revenue 1000000 and a row
\* with budget, revenue and runtime zero
C20_Witness ==
    /\ pc = "typed"
    /\ HasCol(raw, "revenue")
    /\ NRows(raw) = 2
    /\ raw.rows[1]["budget"] = V(500000)
    /\ raw.rows[1]["revenue"] = V(1000000)
    /\ REq(Val(df.rows[1]["revenue_musd"]), RInt(1))
    /\ raw.rows[2]["budget"] = V(0)
    /\ raw.rows[2]["revenue"] = V(0)
    /\ raw.rows[2]["runtime"] = V(0)
    /\ IsNull(df.rows[2]["budget"])
    /\ IsNull(df.rows[2]["runtime"])
    /\ IsNull(df.rows[2]["budget_musd"])
    /\ IsNull(df.rows[2]["revenue_musd"])

----------------------------------------------------------------------------
(* Claims about the Spark session *)

\* C21: get_spark_session is a singleton: with a session active it returns
\* that session and builds nothing, whatever app_name, config_path and
\* overrides it is given; a session is built only by get_spark_session and
\* only when none is active; stop_spark_session without an active session
\* changes nothing.
C21_SessionSingleton ==
    [][/\ (call'.fn = "get_spark_session" /\ NotNull(activeSession)) =>
              /\ result' = activeSession
              /\ activeSession' = activeSession
              /\ built' = built
       /\ built' # built =>
              /\ IsNull(activeSession)
              /\ call'.fn = "get_spark_session"
              /\ built' = built + 1
              /\ result' = activeSession'
              /\ NotNull(activeSession')
              /\ Val(activeSession').id = built'
       /\ (call'.fn = "stop_spark_session" /\ IsNull(activeSession)) =>
              /\ activeSession' = activeSession
              /\ built' = built
      ]_vars

\* a second get_spark_session, with another app_name and with overrides,
\* returned the one session built so far
C21_Witness ==
    /\ call.fn = "get_spark_session"
    /\ built = 1
    /\ result = activeSession
    /\ NotNull(result)
    /\ Val(result).appName # call.app_name
    /\ call.config_overrides # Null
    /\ Val(result).conf = <<>>

----------------------------------------------------------------------------
(* Claims about the single cleaning stages *)

\* The columns of d that are not in cs, in d's order
ColumnsWithout(d, cs) == SelectSeq(d.columns, LAMBDA c : c \notin cs)

\* e has the rows of d, cell for cell, on the columns e has
SameCellsOn(d, e) ==
    /\ NRows(e) = NRows(d)
    /\ \A i \in 1..NRows(e) : \A c \in ColSet(e) :
          /\ e.rows[i][c] = d.rows[i][c]
          /\ e.types[c] = d.types[c]
          /\ DOMAIN e.rows[i] = ColSet(e)

\* C22: drop_irrelevant_columns removes exactly the listed columns that are
\* present, raises nothing when a listed column is absent, and leaves every
\* other column (in its place) and every row unchanged.
C22_DropsListedColumnsOnly ==
    [][pc = "start" =>
          /\ pc' = "dropped"
          /\ df'.columns = ColumnsWithout(df, cols_to_drop)
          /\ ColSet(df') \subseteq ColSet(df)
          /\ SameCellsOn(df, df')
      ]_vars

C22_Witness ==
    /\ pc = "dropped"
    /\ run = 1
    /\ HasCol(before, "adult")
    /\ ~HasCol(before, "imdb_id")
    /\ ~HasCol(df, "adult")
    /\ Len(df.columns) = Len(before.columns) - 1
    /\ NRows(df) = MaxRows
    /\ df.rows[1] # df.rows[2]

\* The non-null names of a list of named entries, in the order of the list
DisplayNames(arr) ==
    LET named == SelectSeq(arr, LAMBDA x : NotNull(x.name))
    IN  [j \in 1..Len(named) |-> Val(named[j].name)]

\* The joined display names of a nullable list: null when there is none
JoinedNames(sub) ==
    IF IsNull(sub) THEN Null
    ELSE IF DisplayNames(Val(sub)) = <<>> THEN Null
    ELSE V(DisplayNames(Val(sub)))

\* C23: flattening maps each nested list to its joined non-null names in
\* source order, maps a null substructure, an empty list and a list with no
\* non-null name to null without raising, and maps a null collection object
\* to a null collection_name.
C23_FlatteningJoinsNames ==
    [][(pc = "dropped" /\ run = 1) =>
          /\ pc' = "flattened"
          /\ NRows(df') = NRows(df)
          /\ \A i \in 1..NRows(df) :
                LET in == df.rows[i]
                    out == df'.rows[i]
                IN  /\ out["genres"] = JoinedNames(in["genres"])
                    /\ out["keywords"] =
                          JoinedNames(IF IsNull(in["keywords"]) THEN Null
                                      ELSE Val(in["keywords"]).keywords)
                    /\ IsNull(in["belongs_to_collection"]) => IsNull(out["collection_name"])
                    /\ NotNull(in["belongs_to_collection"]) =>
                          out["collection_name"] = Val(in["belongs_to_collection"]).name
                    /\ \A c \in ColSet(df) \ {"genres", "keywords"} : out[c] = in[c]
      ]_vars

C23_Witness ==
    /\ pc = "flattened"
    /\ run = 1
    /\ before.rows[1]["genres"] = V(<<Named(V("Drama")), Named(Null), Named(V("Action"))>>)
    /\ df.rows[1]["genres"] = V(<<"Drama", "Action">>)
    /\ before.rows[1]["keywords"] = V([keywords |-> V(<<>>)])
    /\ IsNull(df.rows[1]["keywords"])
    /\ IsNull(before.rows[1]["belongs_to_collection"])
    /\ IsNull(df.rows[1]["collection_name"])

\* The place of column c in the canonical order
CanonicalPlace(c) == CHOOSE i \in 1..Len(desired_order) : desired_order[i] = c

\* C24: finalize_dataframe outputs exactly the canonical columns its input
\* has, in the canonical order; an absent canonical column is not added, a
\* non-canonical column (budget, revenue, credits, belongs_to_collection)
\* never appears, and the rows are unchanged.
C24_CanonicalColumnsPresent ==
    [][pc = "sorted" =>
          /\ pc' = "done"
          /\ ColSet(df') = ColSet(df) \cap Range(desired_order)
          /\ Len(df'.columns) = Cardinality(ColSet(df'))
          /\ \A a, b \in 1..Len(df'.columns) :
                a < b => CanonicalPlace(df'.columns[a]) < CanonicalPlace(df'.columns[b])
          /\ ColSet(df') \cap {"budget", "revenue", "credits", "belongs_to_collection"} = {}
          /\ SameCellsOn(df, df')
      ]_vars

C24_Witness ==
    /\ pc = "done"
    /\ run = 1
    /\ {"budget", "credits", "belongs_to_collection"} \subseteq ColSet(before)
    /\ before.columns[Len(before.columns)] = "crew_size"
    /\ df.columns = <<"id", "title", "tagline", "genres", "collection_name",
                      "budget_musd", "overview",
                      "cast", "cast_size", "director", "crew_size", "keywords">>
    /\ NRows(df) = 1
    /\ df.rows[1]["cast_size"] = V(MaxCast)

----------------------------------------------------------------------------
(* Claims about search_movies on a DataFrame without a name column *)

\* A search_movies call whose actors (directors) criterion names a column
\* the DataFrame does not have
SearchesMissingNameColumn ==
    /\ IsSearchCall
    /\ \/ NotNull(call.args.actors) /\ ~HasCol(kdf, "cast")
       \/ NotNull(call.args.directors) /\ ~HasCol(kdf, "director")

\* C25: search_movies given an actors criterion on a DataFrame without a cast
\* column, or a directors criterion without a director column, returns an
\* empty result and does not raise.
C25_SearchMissingColumnIsEmpty ==
    SearchesMissingNameColumn => (~IsFault(result) /\ NRows(result) = 0)

----------------------------------------------------------------------------
(* Claims about the cast and crew features *)

\* engineer_features has just run on a DataFrame with a credits column
CreditsEngineered == pc = "engineered" /\ HasCol(before, "credits")

\* The cast (crew) list of a credits cell, <<>> when credits or the list is absent
EntriesOf(cr, field) ==
    IF IsNull(cr) THEN <<>>
    ELSE IF IsNull(Val(cr)[field]) THEN <<>>
    ELSE Val(Val(cr)[field])

\* The number of names a joined cell holds
NameCount(cell) == IF IsNull(cell) THEN 0 ELSE Len(Val(cell))

\* C26 as stated: cast holds exactly min(5, number of cast members) names,
\* and cast_size is the total number of cast entries, 0 when credits or
\* its cast list is absent.
C26_CastHoldsMinFiveNames ==
    CreditsEngineered =>
        \A i \in 1..NRows(df) :
            LET cast == EntriesOf(before.rows[i]["credits"], "cast")
            IN  /\ NameCount(df.rows[i]["cast"]) = Min(TopCast, Len(cast))
                /\ df.rows[i]["cast_size"] = V(Len(cast))

\* C26, amended: cast holds the non-null names of the first 5 cast entries
\* in source order (null when there is none), so never more than
\* min(5, number of cast members) names; cast_size is the total number of
\* cast entries, 0 when credits or its cast list is absent.
C26_CastIsNamedTopFive ==
    CreditsEngineered =>
        \A i \in 1..NRows(df) :
            LET cast == EntriesOf(before.rows[i]["credits"], "cast")
                top == [j \in 1..Min(TopCast, Len(cast)) |-> cast[j]]
            IN  /\ df.rows[i]["cast"] = JoinedNames(V(top))
                /\ NameCount(df.rows[i]["cast"]) <= Min(TopCast, Len(cast))
                /\ df.rows[i]["cast_size"] = V(Len(cast))

C26_Witness ==
    /\ CreditsEngineered
    /\ Len(EntriesOf(before.rows[1]["credits"], "cast")) > TopCast
    /\ IsNull(EntriesOf(before.rows[1]["credits"], "cast")[1].name)
    /\ df.rows[1]["cast"] = V(<<"2", "3", "4", "5">>)
    /\ Val(df.rows[1]["cast_size"]) > TopCast

\* C27: director is the name of the first crew entry, in crew order, whose
\* job equals "Director", and is null when credits or crew is absent or no
\* crew entry has that job; a later Director entry never overrides the first.
C27_DirectorIsFirstDirector ==
    CreditsEngineered =>
        \A i \in 1..NRows(df) :
            LET crew == EntriesOf(before.rows[i]["credits"], "crew")
                D == {j \in 1..Len(crew) : crew[j].job = V("Director")}
                director == df.rows[i]["director"]
            IN  /\ D = {} => IsNull(director)
                /\ \A j \in D : (\A k \in D : j <= k) => director = crew[j].name

C27_Witness ==
    /\ CreditsEngineered
    /\ EntriesOf(before.rows[1]["credits"], "crew") =
          <<Member(V("Zach Staenberg"), V("Editor")),
            Member(V("Lilly Wachowski"), V("Director")),
            Member(V("Lana Wachowski"), V("Director"))>>
    /\ df.rows[1]["director"] = V("Lilly Wachowski")
    /\ df.rows[1]["crew_size"] = V(3)

----------------------------------------------------------------------------
(* Claims about placeholder text *)

free_text_cols == {"title", "tagline", "overview", "collection_name"}

\* C28: in the finalized collection no free-text field (title, tagline,
\* overview, collection_name) holds "No Data", "No Overview", "n/a" or "nan".
C28_NoPlaceholderText ==
    (pc = "done" /\ run = 1) =>
        \A i \in 1..NRows(df) : \A c \in free_text_cols \cap ColSet(df) :
            NotNull(df.rows[i][c]) => Val(df.rows[i][c]) \notin placeholders

----------------------------------------------------------------------------
(* Claims about the order of the steps of filter_data and of clean_all *)

\* A record of the deduplicated DataFrame that the validity filters reject
\* for its title or its status
RejectedSurvivor(r) ==
    \/ IsNull(r["title"])
    \/ HasCol(dedup, "status") /\ r["status"] # V("Released")

\* C29: in filter_data the deduplication by id runs before the null-title
\* and status filters: every id of the input has exactly one survivor, drawn
\* from all the input's records, and when that survivor has a null title or
\* a status other than Released the output holds no record with that id,
\* even if another duplicate of the id is valid and Released.
C29_DedupBeforeValidityFilters ==
    pc = "filtered" =>
        /\ \A r \in Range(before.rows) :
              Cardinality({k \in 1..NRows(dedup) : dedup.rows[k]["id"] = r["id"]}) = 1
        /\ \A k \in 1..NRows(dedup) :
              /\ dedup.rows[k] \in Range(before.rows)
              /\ RejectedSurvivor(dedup.rows[k]) =>
                    \A i \in 1..NRows(df) : df.rows[i]["id"] # dedup.rows[k]["id"]

C29_Witness ==
    /\ pc = "filtered"
    /\ run = 1
    /\ NRows(before) = 2
    /\ before.rows[1]["id"] = V(1)
    /\ before.rows[2]["id"] = V(1)
    /\ before.rows[1]["title"] = V("Good")
    /\ before.rows[1]["status"] = V("Released")
    /\ before.rows[2]["status"] = V("Rumored")
    /\ dedup.rows = <<before.rows[2]>>
    /\ NRows(df) = 0

\* The order of the stages of clean_all; a stage that raises ends the run,
\* and a finished run may be followed by another call
StageOrder ==
    {<<"start", "dropped">>, <<"dropped", "flattened">>, <<"flattened", "typed">>,
     <<"typed", "filtered">>, <<"filtered", "engineered">>, <<"engineered", "sorted">>,
     <<"sorted", "done">>,
     <<"dropped", "fault">>, <<"typed", "fault">>, <<"done", "start">>}

\* The records of the deduplicated DataFrame that the validity filters keep
ValidSurvivors ==
    {k \in 1..NRows(dedup) :
        /\ NotNull(dedup.rows[k]["id"])
        /\ NotNull(dedup.rows[k]["title"])
        /\ HasCol(dedup, "status") => dedup.rows[k]["status"] = V("Released")}

\* C30: clean_all runs drop, flatten, coerce types, filter, engineer
\* features, sort genres, finalize once each in that order; every stage but
\* the filter maps each record to one record with the same id; the output
\* row count is the count right after filter_data and never exceeds the
\* input row count.
C30_OnlyFilterChangesRecords ==
    [][/\ pc' # pc => <<pc, pc'>> \in StageOrder
       /\ (pc \notin {"typed", "done"} /\ pc' \notin {pc, "fault"}) =>
             /\ NRows(df') = NRows(df)
             /\ \A i \in 1..NRows(df) : df'.rows[i]["id"] = df.rows[i]["id"]
       /\ (pc = "typed" /\ pc' = "filtered") =>
             /\ NRows(df') = Cardinality(ValidSurvivors')
             /\ NRows(df') <= NRows(df)
       /\ pc' = "done" =>
             /\ NRows(df') = Cardinality(ValidSurvivors')
             /\ NRows(df') <= NRows(raw')
      ]_vars

C30_Witness ==
    /\ pc = "done"
    /\ run = 1
    /\ NRows(raw) = 2
    /\ NRows(dedup) = 2
    /\ NRows(df) = 1
    /\ df.rows[1]["id"] = V(2)
    /\ \E i \in 1..2 : raw.rows[i]["id"] = V(1) /\ raw.rows[i]["status"] = V("Rumored")

=============================================================================
